---- MODULE Spec2Model ----
(***************************************************************************)
(* ACIS SAT record layer (src/src/ezdxf/acis.py) and typed entity layer    *)
(* (src/src/ezdxf/acis/entities.py) of ezdxf.                              *)
(*                                                                         *)
(* Python strings that occur as SAT tokens are modelled as records         *)
(* [k, n, s]:  k = "w" a word such as body or #,  k = "n" the decimal text  *)
(* of the integer n,  k = "$" the text "$" followed by the decimal text of *)
(* n.  In-memory data items are either such strings, a python int          *)
(* (k = "int") or a reference to an AcisEntity (k = "ref", n = object).    *)
(* Objects are numbered; object 0 is the NULL_PTR sentinel.                *)
(***************************************************************************)
EXTENDS Integers, Sequences, FiniteSets, TLC

VARIABLES
    pc,        \* "build" | "dumped" | "raw" | "parsed"
    origin,    \* "none" | "dump" | "raw": where the text in `data` comes from
    heap,      \* the caller's AcisEntity objects: object o is heap[o]
    entities,  \* AcisBuilder.entities of the caller's builder: list of objects
    header,    \* AcisBuilder.header of the caller's builder
    data,      \* SAT text: list of lines, each line a list of tokens
    records,   \* result of parse_records inside parse_sat
    loaded,    \* the AcisBuilder returned by parse_sat
    exc,       \* exception raised by the last call, "none" if it returned
    hdr,       \* an AcisHeader of its own
    hcall,     \* the last call on hdr: [op, arg, before, exc]
    theap,     \* typed entities made by FileLoader.entity_factory
    xcall,     \* the last export call: [fmt, version, bodies]
    xres,      \* its outcome: [exc, exporter, visited, out]
    tents,     \* typed entities of a caller: an entity and a neighbour
    features,  \* the thresholds of const.Features
    raws,      \* the records of a FileLoader: FileLoader.records
    lenv,      \* how the records were written: [pc, by, fmt, version, exc]
    lres,      \* the FileLoader after load_entities
    pdcall,    \* a call of parse_data: [data, fmt], fmt being the list of fields
    pdres,     \* its outcome: [pc, exc, content]
    dheap,     \* typed entities of a caller and NONE_REF: object o is dheap[o]
    dbg,       \* an AcisDebugger and its last call, with the state before it
    dwalk      \* a walk of the debugger: [pc, root, out, exc]

satVars == <<pc, origin, heap, entities, header, data, records, loaded, exc>>
hdrVars == <<hdr, hcall>>
expVars == <<theap, xcall, xres>>
loadVars == <<tents, features, raws, lenv, lres>>
pdVars == <<pdcall, pdres>>
dbgVars == <<dheap, dbg, dwalk>>

vars == <<satVars, hdrVars, expVars, loadVars, pdVars, dbgVars>>

-----------------------------------------------------------------------------
(* Bounds *)

MaxOps == 5        \* entities created, entities registered and links set
MaxRec == 2        \* records of a hand-written SAT text
MaxRawToks == 2    \* optional tokens (directive, non-null pointer, data token)
                   \* of a hand-written SAT text
MaxCount == 2      \* record and entity counts stored in a header
MaxXOps == 5       \* typed entities created and reference fields set
MaxLines == 3      \* physical lines after the header of a hand-written text
MaxLinks == 2      \* references set in the entity whose records are loaded

-----------------------------------------------------------------------------
(* Tokens and values *)

Word(s) == [k |-> "w", n |-> 0, s |-> s]
Num(n) == [k |-> "n", n |-> n, s |-> ""]
Ptr(n) == [k |-> "$", n |-> n, s |-> ""]
Ref(o) == [k |-> "ref", n |-> o, s |-> ""]
PyInt(n) == [k |-> "int", n |-> n, s |-> ""]
Flt(v) == [k |-> "f", n |-> v, s |-> ""]

NullObj == 0
PyNone == -1

EndMark == Word("#")
EndOfData == Word("End-of-ACIS-data")
BeginOfHistory == Word("Begin-of-ACIS-History-Data")

\* a physical line is the list of its tokens; Blank as the last element
\* stands for whitespace after the last token (a line of whitespace only is
\* <<Blank>>, the empty string is <<>>)
Blank == Word(" ")

\* line.split()
split(line) == SelectSeq(line, LAMBDA t : t # Blank)

\* str(x) of a data item that is not an AcisEntity
Str(v) == IF v.k = "int" THEN Num(v.n) ELSE v

\* int(s) of a string: [exc, val]
ParseInt(s) ==
    IF s.k = "n" THEN [exc |-> "none", val |-> s.n]
    ELSE [exc |-> "ValueError", val |-> 0]

is_ptr(s) == s.k = "$"

is_entity(v) == v.k = "ref"

Range(f) == {f[i] : i \in DOMAIN f}

\* the first exception of a list of outcomes, "none" if there is none
FirstExc(rs) ==
    IF \E i \in DOMAIN rs : rs[i].exc # "none"
    THEN rs[CHOOSE i \in DOMAIN rs :
             /\ rs[i].exc # "none"
             /\ \A j \in DOMAIN rs : j < i => rs[j].exc = "none"].exc
    ELSE "none"

-----------------------------------------------------------------------------
(* AcisEntity, NULL_PTR, AcisHeader *)

AcisEntity(name, attr_ptr, id, dt) ==
    [name |-> name, attr_ptr |-> attr_ptr, id |-> id, data |-> dt,
     attributes |-> PyNone]

NULL_PTR == AcisEntity(Word("null-ptr"), Ptr(-1), -1, <<>>)

new_acis_entity(name, attributes, id, dt) ==
    [AcisEntity(name, Ptr(-1), id, dt) EXCEPT !.attributes = attributes]

\* a str whose characters matter is the list of its characters
ACIS_VERSION ==
    (400 :> <<"A", "C", "I", "S", " ", "4", ".", "0", "0", " ", "N", "T">>)
    @@ (20800 :> <<"A", "C", "I", "S", " ", "2", "0", "8", ".", "0", "0", " ",
                   "N", "T">>)

EzdxfBuilder ==
    <<"e", "z", "d", "x", "f", " ", "A", "C", "I", "S", " ", "B", "u", "i",
      "l", "d", "e", "r">>

Digits == <<"0", "1", "2", "3", "4", "5", "6", "7", "8", "9">>

DigitVal(c) == CHOOSE n \in 0..9 : Digits[n + 1] = c

\* str(n) of an int n >= 0
RECURSIVE DecimalStr(_)
DecimalStr(n) ==
    IF n < 10 THEN <<Digits[n + 1]>>
    ELSE DecimalStr(n \div 10) \o <<Digits[(n % 10) + 1]>>

\* a datetime is the number d of its seconds: datetime(2022, 1, 1, 10, 0, d);
\* Now stands for datetime.now() of the field's default factory
Now == 9

\* datetime.ctime()
ctime(d) ==
    <<"S", "a", "t", " ", "J", "a", "n", " ", " ", "1", " ", "1", "0", ":",
      "0", "0", ":", "0", Digits[d + 1], " ", "2", "0", "2", "2">>

\* datetime.strptime(s, "%a %b %d %H:%M:%S %Y"): [exc, val]
strptime(s) ==
    IF /\ Len(s) = Len(ctime(0))
       /\ \E d \in 0..9 : s = ctime(d)
    THEN [exc |-> "none", val |-> CHOOSE d \in 0..9 : s = ctime(d)]
    ELSE [exc |-> "ValueError", val |-> Now]

\* a float is the number of its 10^-7 parts: 1.0 is FloatOne
FloatOne == 10000000

\* significant digits of the format ":g"
GPrecision == 6

RECURSIVE NumDigits(_)
NumDigits(n) == IF n < 10 THEN 1 ELSE 1 + NumDigits(n \div 10)

RECURSIVE Pow10(_)
Pow10(k) == IF k = 0 THEN 1 ELSE 10 * Pow10(k - 1)

\* f"{x:g}" of a float x >= 0: x rounded to six significant digits; the
\* token stands for the decimal text of that value
format_g(x) ==
    IF NumDigits(x) <= GPrecision THEN Flt(x)
    ELSE LET sc == Pow10(NumDigits(x) - GPrecision)
         IN  Flt(((x + sc \div 2) \div sc) * sc)

\* float(s) of a string: [exc, val]
ParseFloat(s) ==
    IF s.k = "f" THEN [exc |-> "none", val |-> s.n]
    ELSE IF s.k = "n" THEN [exc |-> "none", val |-> s.n * FloatOne]
    ELSE [exc |-> "ValueError", val |-> 0]

AcisHeader ==
    [version |-> 400, n_records |-> 0, n_entities |-> 0, history_flag |-> 0,
     product_id |-> EzdxfBuilder, acis_version |-> ACIS_VERSION[400],
     creation_date |-> Now, units_in_mm |-> FloatOne]

\* AcisHeader._header_str(): the characters of the second header line
_header_str(h) ==
    LET at == IF h.version > 400 THEN <<"@">> ELSE <<>>
        part(str) == at \o DecimalStr(Len(str)) \o <<" ">> \o str \o <<" ">>
    IN  part(h.product_id) \o part(h.acis_version)
        \o part(ctime(h.creation_date))

\* AcisHeader.dumps(): three lines; the first and the third are lists of
\* tokens that end in a blank, the second is a list of characters
dumps(h) ==
    << <<Num(h.version), Num(h.n_records), Num(h.n_entities),
         Num(h.history_flag), Blank>>,
       _header_str(h),
       <<format_g(h.units_in_mm), Word("9.9999999999999995e-007"),
         Word("1e-010"), Blank>> >>

-----------------------------------------------------------------------------
(* Export of the record layer: build_str_records, dump_sat *)

\* a mistaken list.index(e): counts positions from 1
index_from_one(ents, e) ==
    CHOOSE i \in 1..Len(ents) :
        /\ ents[i] = e
        /\ \A j \in 1..(i - 1) : ents[j] # e

\* list.index(e): 0-based position of the first occurrence
index(ents, e) ==
    (CHOOSE i \in 1..Len(ents) :
        /\ ents[i] = e
        /\ \A j \in 1..(i - 1) : ents[j] # e) - 1

\* a mistaken ptr_str: no case for NULL_PTR
ptr_str_no_null(ents, e) ==
    IF e \in Range(ents)
    THEN [exc |-> "none", tok |-> Ptr(index(ents, e))]
    ELSE [exc |-> "InvalidLinkStructure", tok |-> Ptr(-1)]

\* a mistaken ptr_str: an entity that is not in the list is written as null
ptr_str_nulls_unknown(ents, e) ==
    IF e = NullObj \/ e \notin Range(ents)
    THEN [exc |-> "none", tok |-> Ptr(-1)]
    ELSE [exc |-> "none", tok |-> Ptr(index(ents, e))]

ptr_str(ents, e) ==
    IF e = NullObj THEN [exc |-> "none", tok |-> Ptr(-1)]
    ELSE IF e \in Range(ents)
         THEN [exc |-> "none", tok |-> Ptr(index(ents, e))]
         ELSE [exc |-> "InvalidLinkStructure", tok |-> Ptr(-1)]

\* a mistaken gate: the id is written above 700 only
dump_has_id_above(version) == version > 700

\* build_str_records writes the id token
dump_has_id(version) == version >= 700

\* the tokens of one entity's record: [exc, tokens]
record_tokens(ents, hp, version, e) ==
    LET ent == hp[e]
        attr == ptr_str(ents, ent.attributes)
        items == [p \in 1..Len(ent.data) |->
                    IF is_entity(ent.data[p])
                    THEN ptr_str(ents, ent.data[p].n)
                    ELSE [exc |-> "none", tok |-> Str(ent.data[p])]]
        all == <<attr>> \o items
    IN  [exc |-> FirstExc(all),
         tokens |-> <<ent.name, attr.tok>>
                    \o (IF dump_has_id(version) THEN <<Num(ent.id)>> ELSE <<>>)
                    \o [p \in 1..Len(items) |-> items[p].tok]
                    \o <<EndMark>>]

build_str_records(ents, hp, version) ==
    LET recs == [i \in 1..Len(ents) |-> record_tokens(ents, hp, version, ents[i])]
    IN  [exc |-> FirstExc(recs),
         lines |-> [i \in 1..Len(ents) |-> recs[i].tokens]]

dump_sat(h, ents, hp) ==
    LET recs == build_str_records(ents, hp, h.version)
    IN  IF recs.exc # "none" THEN [exc |-> recs.exc, lines |-> <<>>]
        ELSE [exc |-> "none",
              lines |-> dumps(h) \o recs.lines \o << <<EndOfData>> >>]

-----------------------------------------------------------------------------
(* Load of the record layer: parse_sat and its steps *)

\* s.rstrip() of a list of characters
RECURSIVE rstrip(_)
rstrip(s) ==
    IF s # <<>> /\ s[Len(s)] = " " THEN rstrip(SubSeq(s, 1, Len(s) - 1))
    ELSE s

\* the loop of _parse_header_str from character i on: num is int(num) of
\* the digits collected so far, has_num tells that there is one; the
\* iterations with collect > 0 are taken in one step: they append the next
\* `collect` characters to the token whatever they are and yield the token
\* when the last of them is read, so a token the string ends in and a token
\* of length 0 are never yielded
RECURSIVE header_tokens(_, _, _, _, _)
header_tokens(s, i, num, has_num, acc) ==
    IF i > Len(s) THEN acc
    ELSE LET c == s[i]
         IN  IF c = "@" THEN header_tokens(s, i + 1, num, has_num, acc)
             ELSE IF c \in Range(Digits)
             THEN header_tokens(s, i + 1, 10 * num + DigitVal(c), TRUE, acc)
             ELSE IF c = " " /\ has_num
             THEN IF num = 0 THEN header_tokens(s, i + 1, 0, FALSE, acc)
                  ELSE IF i + num > Len(s) THEN acc
                  ELSE header_tokens(s, i + num + 1, 0, FALSE,
                                     Append(acc, SubSeq(s, i + 1, i + num)))
             ELSE header_tokens(s, i + 1, num, has_num, acc)

\* _parse_header_str(s): the list of the strings it yields
_parse_header_str(s) == header_tokens(rstrip(s), 1, 0, FALSE, <<>>)

\* parse_sat_header(data): [exc, header, rest]
parse_sat_header(d) ==
    LET fail(e) == [exc |-> e, header |-> AcisHeader, rest |-> <<>>]
    IN  IF Len(d) < 1 \/ Len(split(d[1])) < 1 THEN fail("IndexError")
        ELSE IF ParseInt(split(d[1])[1]).exc # "none" THEN fail("ValueError")
        ELSE IF Len(d) < 3 THEN fail("IndexError")
        ELSE
          LET t1 == split(d[1])
              ok(i) == Len(t1) >= i /\ ParseInt(t1[i]).exc = "none"
              \* one try block: the first failure leaves the later counts
              \* at their defaults
              ok2 == ok(2)
              ok3 == ok2 /\ ok(3)
              ok4 == ok3 /\ ok(4)
              t2 == _parse_header_str(d[2])
              date == IF Len(t2) > 2 THEN strptime(t2[3])
                      ELSE [exc |-> "IndexError", val |-> Now]
              t3 == split(d[3])
              units == IF Len(t3) >= 1 THEN ParseFloat(t3[1])
                       ELSE [exc |-> "IndexError", val |-> 0]
          IN  [exc |-> "none",
               header |->
                 [version |-> ParseInt(t1[1]).val,
                  n_records |-> IF ok2 THEN ParseInt(t1[2]).val
                                ELSE AcisHeader.n_records,
                  n_entities |-> IF ok3 THEN ParseInt(t1[3]).val
                                 ELSE AcisHeader.n_entities,
                  history_flag |-> IF ok4 THEN ParseInt(t1[4]).val
                                   ELSE AcisHeader.history_flag,
                  product_id |-> IF Len(t2) >= 1 THEN t2[1]
                                 ELSE AcisHeader.product_id,
                  acis_version |-> IF Len(t2) >= 2 THEN t2[2]
                                   ELSE AcisHeader.acis_version,
                  creation_date |-> IF date.exc = "none" THEN date.val
                                    ELSE AcisHeader.creation_date,
                  units_in_mm |-> IF units.exc = "none" THEN units.val
                                  ELSE AcisHeader.units_in_mm],
               rest |-> SubSeq(d, 4, Len(d))]

\* a mistaken terminator test: the history marker is not recognised
is_terminator_end_only(line) == line # <<>> /\ line[1] = EndOfData

\* line.startswith("End-of-ACIS-data") or
\* line.startswith("Begin-of-ACIS-History-Data")
is_terminator(line) == line # <<>> /\ line[1] \in {EndOfData, BeginOfHistory}

\* current_line[-1] == "#" after current_line += line
ends_record(line) == line # <<>> /\ line[Len(line)] = EndMark

\* _merge_record_strings(data): the logical records, each the list of the
\* tokens of the joined lines: [exc, recs]
RECURSIVE merge_from(_, _, _, _, _)
merge_from(lines, i, cur, started, acc) ==
    IF i > Len(lines) THEN [exc |-> "none", recs |-> acc]
    ELSE
      LET line == lines[i]
      IN  IF is_terminator(line)
          THEN [exc |-> "none", recs |-> acc]
          ELSE IF line = <<>> /\ ~started
          THEN [exc |-> "IndexError", recs |-> acc]
          ELSE IF ends_record(line)
          THEN merge_from(lines, i + 1, <<>>, FALSE,
                          Append(acc, cur \o split(line)))
          ELSE merge_from(lines, i + 1, cur \o split(line), TRUE, acc)

_merge_record_strings(lines) == merge_from(lines, 1, <<>>, FALSE, <<>>)

\* first_token.startswith("-")
starts_with_minus(tok) == tok.k = "n" /\ tok.n < 0

Record(num, tokens) == [num |-> num, tokens |-> tokens]

\* a mistaken directive: the sign is kept
directive_num_signed(tok) == ParseInt(tok).val

\* num = -int(first_token)
directive_num(tok) == -ParseInt(tok).val

\* a mistaken tokens[:-1]: the end of record marker is kept
drop_last_none(tokens) == tokens

\* tokens[:-1]
drop_last(tokens) == SubSeq(tokens, 1, Len(tokens) - 1)

RECURSIVE parse_from(_, _, _, _)
parse_from(recs, i, num, acc) ==
    IF i > Len(recs) THEN acc
    ELSE
      LET tokens == recs[i]
          directive == starts_with_minus(tokens[1])
          n == IF directive THEN directive_num(tokens[1]) ELSE num
          toks == IF directive THEN Tail(tokens) ELSE tokens
      IN  parse_from(recs, i + 1, n + 1, Append(acc, Record(n, drop_last(toks))))

\* parse_records(data): [exc, records]
parse_records(lines) ==
    LET m == _merge_record_strings(lines)
    IN  IF m.exc # "none" THEN [exc |-> m.exc, records |-> <<>>]
        ELSE [exc |-> "none", records |-> parse_from(m.recs, 1, 0, <<>>)]

\* sorted(S) of a set of integers
RECURSIVE sorted(_)
sorted(S) ==
    IF S = {} THEN <<>>
    ELSE LET m == CHOOSE x \in S : \A y \in S : x <= y
         IN  <<m>> \o sorted(S \ {m})

\* build_entities(records, version): the entity of record k is object k;
\* dict maps a record number to the object last stored under it
build_entities(recs, version) ==
    LET one(k) ==
          LET t == recs[k].tokens
          IN  IF Len(t) < 2 THEN [exc |-> "IndexError", e |-> NULL_PTR]
              ELSE IF version >= 700
              THEN IF Len(t) < 3 THEN [exc |-> "IndexError", e |-> NULL_PTR]
                   ELSE IF ParseInt(t[3]).exc # "none"
                   THEN [exc |-> "ValueError", e |-> NULL_PTR]
                   ELSE [exc |-> "none",
                         e |-> AcisEntity(t[1], t[2], ParseInt(t[3]).val,
                                          SubSeq(t, 4, Len(t)))]
              ELSE [exc |-> "none",
                    e |-> AcisEntity(t[1], t[2], -1, SubSeq(t, 3, Len(t)))]
        built == [k \in 1..Len(recs) |-> one(k)]
        nums == {recs[k].num : k \in 1..Len(recs)}
        last(n) == CHOOSE k \in 1..Len(recs) :
                      /\ recs[k].num = n
                      /\ \A j \in 1..Len(recs) : recs[j].num = n => j <= k
        firsts == sorted({k \in 1..Len(recs) :
                            \A j \in 1..(k - 1) : recs[j].num # recs[k].num})
    IN  [exc |-> FirstExc(built),
         objs |-> [k \in 1..Len(recs) |-> built[k].e],
         dict |-> [n \in nums |-> last(n)],
         keys |-> [i \in 1..Len(firsts) |-> recs[firsts[i]].num]]

\* a mistaken ptr: the pointer is taken as a position in the record list
ptr_by_position(dict, s) ==
    LET objs == {dict[n] : n \in DOMAIN dict}
    IN  IF is_ptr(s)
        THEN IF s.n = -1 THEN [exc |-> "none", obj |-> NullObj]
             ELSE IF s.n + 1 \in objs THEN [exc |-> "none", obj |-> s.n + 1]
             ELSE [exc |-> "KeyError", obj |-> NullObj]
        ELSE [exc |-> "ValueError", obj |-> NullObj]

\* ptr(s) of resolve_str_pointers: [exc, obj]
ptr(dict, s) ==
    IF is_ptr(s)
    THEN IF s.n = -1 THEN [exc |-> "none", obj |-> NullObj]
         ELSE IF s.n \in DOMAIN dict THEN [exc |-> "none", obj |-> dict[s.n]]
         ELSE [exc |-> "KeyError", obj |-> NullObj]
    ELSE [exc |-> "ValueError", obj |-> NullObj]

\* resolve_str_pointers(entities): [exc, objs, list]; keys is the insertion
\* order of the dict
resolve_str_pointers(dict, keys, objs) ==
    LET live == {dict[n] : n \in DOMAIN dict}
        one(k) ==
          LET e == objs[k]
              attr == ptr(dict, e.attr_ptr)
              items == [p \in 1..Len(e.data) |->
                          IF is_ptr(e.data[p]) THEN ptr(dict, e.data[p])
                          ELSE [exc |-> "none", obj |-> NullObj]]
          IN  [exc |-> FirstExc(<<attr>> \o items),
               e |-> [e EXCEPT !.attributes = attr.obj,
                               !.attr_ptr = Ptr(-1),
                               !.data = [p \in 1..Len(e.data) |->
                                           IF is_ptr(e.data[p])
                                           THEN Ref(items[p].obj)
                                           ELSE e.data[p]]]]
        order == [i \in 1..Len(keys) |-> one(dict[keys[i]])]
        by_num == sorted(DOMAIN dict)
    IN  [exc |-> FirstExc(order),
         objs |-> [k \in 1..Len(objs) |->
                     IF k \in live THEN one(k).e ELSE objs[k]],
         list |-> [i \in 1..Len(by_num) |-> dict[by_num[i]]]]

AcisBuilder == [header |-> AcisHeader, bodies |-> <<>>, entities |-> <<>>,
                heap |-> <<>>]

\* AcisBuilder.set_entities
set_entities(b, list, objs) ==
    [b EXCEPT !.bodies = SelectSeq(list, LAMBDA o : objs[o].name = Word("body")),
              !.entities = list,
              !.heap = objs]

\* parse_sat(data): [exc, builder, records]
parse_sat(d) ==
    LET fail(e, rs) == [exc |-> e, builder |-> AcisBuilder, records |-> rs]
        hd == parse_sat_header(d)
        rc == parse_records(hd.rest)
        be == build_entities(rc.records, hd.header.version)
        rs == resolve_str_pointers(be.dict, be.keys, be.objs)
    IN  IF hd.exc # "none" THEN fail(hd.exc, <<>>)
        ELSE IF rc.exc # "none" THEN fail(rc.exc, <<>>)
        ELSE IF be.exc # "none" THEN fail(be.exc, rc.records)
        ELSE IF rs.exc # "none" THEN fail(rs.exc, rc.records)
        ELSE [exc |-> "none",
              builder |-> set_entities([AcisBuilder EXCEPT !.header = hd.header],
                                       rs.list, rs.objs),
              records |-> rc.records]

-----------------------------------------------------------------------------
(* The caller of the record layer *)

Versions == {400, 700}
Names == {Word("body"), Word("lump")}
\* the name and id arguments of the caller's new_acis_entity calls
Kinds == {<<Word("body"), -1>>, <<Word("lump"), 7>>}
Scalars == {Word("forward"), PyInt(3)}
RawPtrs == {Ptr(-2), Ptr(-1), Ptr(0), Ptr(2)}
RawData == RawPtrs \cup {Word("forward")}
Directives == {<<>>, <<Num(-2)>>}

Objects == 1..Len(heap)

\* attribute references other than NULL_PTR, and data items, in the heap
Links(hp) ==
    LET n(o) == (IF hp[o].attributes # NullObj THEN 1 ELSE 0) + Len(hp[o].data)
        RECURSIVE sum(_)
        sum(o) == IF o = 0 THEN 0 ELSE n(o) + sum(o - 1)
    IN  sum(Len(hp))

Ops == Len(heap) + Len(entities) + Links(heap)

\* e = new_acis_entity(name, id=id)
NewEntity(name, id) ==
    /\ pc = "build"
    /\ Ops < MaxOps
    /\ heap' = Append(heap, new_acis_entity(name, NullObj, id, <<>>))
    /\ UNCHANGED <<pc, origin, entities, header, data, records, loaded, exc>>

\* builder.entities.append(o)
Register(o) ==
    /\ pc = "build"
    /\ Ops < MaxOps
    /\ entities' = Append(entities, o)
    /\ UNCHANGED <<pc, origin, heap, header, data, records, loaded, exc>>

\* o.attributes = r
SetAttributes(o, r) ==
    /\ pc = "build"
    /\ heap[o].attributes = NullObj
    /\ Ops < MaxOps
    /\ heap' = [heap EXCEPT ![o].attributes = r]
    /\ UNCHANGED <<pc, origin, entities, header, data, records, loaded, exc>>

\* o.data.append(v)
AppendData(o, v) ==
    /\ pc = "build"
    /\ Ops < MaxOps
    /\ heap' = [heap EXCEPT ![o].data = Append(@, v)]
    /\ UNCHANGED <<pc, origin, entities, header, data, records, loaded, exc>>

\* data = builder.dump_sat()
DumpSat ==
    /\ pc = "build"
    /\ LET r == dump_sat(header, entities, heap)
       IN  /\ exc' = r.exc
           /\ data' = r.lines
    /\ pc' = "dumped"
    /\ origin' = "dump"
    /\ UNCHANGED <<heap, entities, header, records, loaded>>

\* the caller writes the header of a SAT text by hand
HeaderKinds == {"ok", "no version", "bad version", "two lines"}

WriteHeader(kind) ==
    /\ pc = "build"
    /\ heap = <<>>
    /\ LET d == dumps(header)
       IN  data' = CASE kind = "ok" -> d
                     [] kind = "no version" -> [d EXCEPT ![1] = <<>>]
                     [] kind = "bad version" -> [d EXCEPT ![1][1] = Word("ACIS")]
                     [] kind = "two lines" -> SubSeq(d, 1, 2)
    /\ pc' = "raw"
    /\ origin' = "raw"
    /\ UNCHANGED <<heap, entities, header, records, loaded, exc>>

GoodHeader(d) == parse_sat_header(d).exc = "none"

\* optional tokens of the records of a text
RECURSIVE RawCost(_)
RawCost(lines) ==
    IF lines = <<>> THEN 0
    ELSE LET t == Head(lines)
             dir == IF starts_with_minus(t[1]) THEN 1 ELSE 0
             fixed == dir + (IF header.version >= 700 THEN 4 ELSE 3)
         IN  dir + (IF t[dir + 2] # Ptr(-1) THEN 1 ELSE 0) + (Len(t) - fixed)
             + RawCost(Tail(lines))

\* the caller writes one more record line: [-N] name attr [id] #
WriteRecord(dir, name, attr) ==
    /\ pc = "raw"
    /\ GoodHeader(data)
    /\ Len(data) < 3 + MaxRec
    /\ LET line == dir \o <<name, attr>>
                   \o (IF header.version >= 700
                       THEN <<Num(10 + Len(data))>> ELSE <<>>)
                   \o <<EndMark>>
       IN  /\ RawCost(SubSeq(data, 4, Len(data)) \o <<line>>) <= MaxRawToks
           /\ data' = Append(data, line)
    /\ UNCHANGED <<pc, origin, heap, entities, header, records, loaded, exc>>

\* the caller writes one more data token into the last record line
WriteToken(tok) ==
    /\ pc = "raw"
    /\ Len(data) > 3
    /\ RawCost(SubSeq(data, 4, Len(data))) < MaxRawToks
    /\ LET t == data[Len(data)]
       IN  data' = [data EXCEPT ![Len(data)] =
                       SubSeq(t, 1, Len(t) - 1) \o <<tok, EndMark>>]
    /\ UNCHANGED <<pc, origin, heap, entities, header, records, loaded, exc>>

\* loaded = parse_sat(data)
ParseSat ==
    /\ pc \in {"dumped", "raw"}
    /\ exc = "none"
    /\ LET r == parse_sat(data)
       IN  /\ exc' = r.exc
           /\ loaded' = r.builder
           /\ records' = r.records
    /\ pc' = "parsed"
    /\ UNCHANGED <<origin, heap, entities, header, data>>

SatInit ==
    /\ pc = "build"
    /\ origin = "none"
    /\ heap = <<>>
    /\ entities = <<>>
    /\ header \in {[AcisHeader EXCEPT !.version = v] : v \in Versions}
    /\ data = <<>>
    /\ records = <<>>
    /\ loaded = AcisBuilder
    /\ exc = "none"

SatNext ==
    \/ \E kind \in Kinds : NewEntity(kind[1], kind[2])
    \/ \E o \in Objects : Register(o)
    \/ \E o \in Objects, r \in Objects : SetAttributes(o, r)
    \/ \E o \in Objects, v \in Scalars \cup {Ref(r) : r \in Objects \cup {NullObj}} :
          AppendData(o, v)
    \/ DumpSat
    \/ \E kind \in HeaderKinds : WriteHeader(kind)
    \/ \E dir \in Directives, name \in Names, attr \in RawPtrs :
          WriteRecord(dir, name, attr)
    \/ \E tok \in RawData : WriteToken(tok)
    \/ ParseSat

SatIdle ==
    /\ pc = "idle"
    /\ origin = "none"
    /\ heap = <<>>
    /\ entities = <<>>
    /\ header = AcisHeader
    /\ data = <<>>
    /\ records = <<>>
    /\ loaded = AcisBuilder
    /\ exc = "none"

-----------------------------------------------------------------------------
(* Hand-written record lines: records over several physical lines, several
   records on one line, whitespace, terminators, directives *)

\* the id token a record needs from version 700 on
IdTok(version) == IF version >= 700 THEN <<Num(7)>> ELSE <<>>

FullRecord(version, name, attr) ==
    <<name, attr>> \o IdTok(version) \o <<EndMark>>

TextLines(version) ==
    {FullRecord(version, Word("body"), Ptr(-1)),
     FullRecord(version, Word("lump"), Ptr(0)),
     <<Word("lump"), Ptr(-1)>> \o IdTok(version),
     <<Word("forward"), EndMark>>,
     FullRecord(version, Word("body"), Ptr(-1))
         \o FullRecord(version, Word("lump"), Ptr(-1)),
     FullRecord(version, Word("body"), Ptr(-1)) \o <<Blank>>,
     <<>>,
     <<Blank>>,
     <<EndOfData>>,
     <<BeginOfHistory>>,
     <<Num(-1)>> \o FullRecord(version, Word("lump"), Ptr(-1))}

\* the caller writes one more physical line
WriteLine(line) ==
    /\ pc = "raw"
    /\ origin = "text"
    /\ Len(data) < 3 + MaxLines
    /\ data' = Append(data, line)
    /\ UNCHANGED <<pc, origin, heap, entities, header, records, loaded, exc>>

TextInit ==
    /\ pc = "raw"
    /\ origin = "text"
    /\ heap = <<>>
    /\ entities = <<>>
    /\ header \in {[AcisHeader EXCEPT !.version = v] : v \in Versions}
    /\ data = dumps(header)
    /\ records = <<>>
    /\ loaded = AcisBuilder
    /\ exc = "none"

TextNext ==
    \/ \E line \in TextLines(header.version) : WriteLine(line)
    \/ ParseSat

-----------------------------------------------------------------------------
(* Headers: the caller sets the fields of a header, formats it with dumps()
   and parses the three lines, as written or with one sub-field damaged *)

ProductIds == {EzdxfBuilder, <<>>, <<"7">>, <<"a", " ", "b">>}
VersionStrs == {ACIS_VERSION[400], ACIS_VERSION[20800]}
Dates == {0, 1, Now}
Units == {FloatOne, 254000000, 12345678}      \* 1.0, 25.4, 1.2345678
Counts == {0, MaxCount}

HeaderValues ==
    [version |-> Versions, n_records |-> Counts, n_entities |-> Counts,
     history_flag |-> {0, 1}, product_id |-> ProductIds,
     acis_version |-> VersionStrs, creation_date |-> Dates,
     units_in_mm |-> Units]

\* header.<f> = v
SetHeader(f, v) ==
    /\ pc = "build"
    /\ header[f] # v
    /\ header' = [header EXCEPT ![f] = v]
    /\ UNCHANGED <<pc, origin, heap, entities, data, records, loaded, exc>>

\* data = header.dumps()
HeaderDumps ==
    /\ pc = "build"
    /\ data' = dumps(header)
    /\ pc' = "raw"
    /\ origin' = "header"
    /\ UNCHANGED <<heap, entities, header, records, loaded, exc>>

Damages ==
    {"bad n_records", "bad n_entities", "bad history_flag", "no history_flag",
     "no counts", "bad date", "no strings", "bad units", "no units"}

\* the header lines with one informational sub-field malformed or missing
damaged(d, kind) ==
    CASE kind = "bad n_records" -> [d EXCEPT ![1][2] = Word("x")]
      [] kind = "bad n_entities" -> [d EXCEPT ![1][3] = Word("x")]
      [] kind = "bad history_flag" -> [d EXCEPT ![1][4] = Word("x")]
      [] kind = "no history_flag" -> [d EXCEPT ![1] = SubSeq(d[1], 1, 3)]
      [] kind = "no counts" -> [d EXCEPT ![1] = SubSeq(d[1], 1, 1)]
      [] kind = "bad date" -> [d EXCEPT ![2][Len(d[2]) - 1] = "x"]
      [] kind = "no strings" -> [d EXCEPT ![2] = <<>>]
      [] kind = "bad units" -> [d EXCEPT ![3][1] = Word("x")]
      [] kind = "no units" -> [d EXCEPT ![3] = <<>>]

\* the caller edits one sub-field of the header text
Damage(kind) ==
    /\ pc = "raw"
    /\ origin = "header"
    /\ data' = damaged(data, kind)
    /\ origin' = "damaged header"
    /\ UNCHANGED <<pc, heap, entities, header, records, loaded, exc>>

HeaderTextInit ==
    /\ pc = "build"
    /\ origin = "none"
    /\ heap = <<>>
    /\ entities = <<>>
    /\ header = AcisHeader
    /\ data = <<>>
    /\ records = <<>>
    /\ loaded = AcisBuilder
    /\ exc = "none"

HeaderTextNext ==
    \/ \E f \in DOMAIN HeaderValues : \E v \in HeaderValues[f] : SetHeader(f, v)
    \/ HeaderDumps
    \/ \E kind \in Damages : Damage(kind)
    \/ ParseSat

-----------------------------------------------------------------------------
(* AcisHeader.set_version and its caller *)

\* a mistaken set_version: the number is stored before the table lookup
set_version_number_first(h, version) ==
    IF version \in DOMAIN ACIS_VERSION
    THEN [exc |-> "none",
          h |-> [h EXCEPT !.acis_version = ACIS_VERSION[version],
                          !.version = version]]
    ELSE [exc |-> "ValueError", h |-> [h EXCEPT !.version = version]]

\* AcisHeader.set_version(version): [exc, h]
set_version(h, version) ==
    IF version \in DOMAIN ACIS_VERSION
    THEN [exc |-> "none",
          h |-> [h EXCEPT !.acis_version = ACIS_VERSION[version],
                          !.version = version]]
    ELSE [exc |-> "ValueError", h |-> h]

VersionArgs == {0, 400, 700, 20800}

NoCall == [op |-> "none", arg |-> 0, before |-> AcisHeader, exc |-> "none"]

\* hdr.set_version(v)
SetVersion(v) ==
    /\ LET r == set_version(hdr, v)
       IN  /\ hdr' = r.h
           /\ hcall' = [op |-> "set_version", arg |-> v, before |-> hdr,
                        exc |-> r.exc]

\* hdr.n_records = n; hdr.n_entities = m; hdr.history_flag = f
SetCounts(n, m, f) ==
    /\ hdr' = [hdr EXCEPT !.n_records = n, !.n_entities = m, !.history_flag = f]
    /\ hcall' = [op |-> "counts", arg |-> 0, before |-> hdr, exc |-> "none"]

HdrInit ==
    /\ hdr = AcisHeader
    /\ hcall = NoCall

HdrIdle == HdrInit

HdrNext ==
    \/ \E v \in VersionArgs : SetVersion(v)
    \/ \E n \in 0..MaxCount, m \in 0..MaxCount, f \in {0, 1} : SetCounts(n, m, f)
-----------------------------------------------------------------------------
(* Typed entities: the registry, entity_factory, export_sat and export_sab *)

NONE_REF == 0

UNSUPPORTED == "unsupported-entity"

\* values of scalar fields
PyBool(b) == [k |-> "bool", n |-> IF b THEN 1 ELSE 0, s |-> ""]
PyFloat(x) == [k |-> "float", n |-> x, s |-> ""]
PyStr(s) == [k |-> "str", n |-> 0, s |-> s]

\* one call of a write_common or a restore_common: the field, the call, its
\* arguments (the expected type of restore_entity, the two strings of a bool)
FPtr(f, expected) == [f |-> f, kind |-> "ptr", a |-> expected, b |-> ""]
FDouble(f) == [f |-> f, kind |-> "double", a |-> "", b |-> ""]
FBool(f, true, false) == [f |-> f, kind |-> "bool", a |-> true, b |-> false]
FStr(f) == [f |-> f, kind |-> "str", a |-> "", b |-> ""]
\* write_int(0, skip_sat=True) and read_int(skip_sat=0)
FIntSkipSat(f) == [f |-> f, kind |-> "int", a |-> "", b |-> ""]
\* a mistaken containment field: written and read for every face
FBoolAlways(f, true, false) ==
    [f |-> f, kind |-> "bool", a |-> true, b |-> false]

\* a bool written and read only if self.double_sided
FBoolIfDouble(f, true, false) ==
    [f |-> f, kind |-> "bool_if_double", a |-> true, b |-> false]

\* the thresholds of const.Features: the specification names a pattern
\* threshold and a later tolerance-modeling threshold, and the versions
\* export accepts (>= 700) write every gated field
FeatureSets ==
    {[PATTERN |-> 500, TOL_MODELING |-> 700],
     [PATTERN |-> 700, TOL_MODELING |-> 700]}

\* the calls of write_common of a class, in their order, super() first
WriteFields(type) ==
    LET pattern == <<FPtr("pattern", "")>>
    IN  CASE type = "body" ->
               pattern \o <<FPtr("lump", ""), FPtr("wire", ""),
                            FPtr("transform", "")>>
          [] type = "lump" ->
               pattern \o <<FPtr("next_lump", ""), FPtr("shell", ""),
                            FPtr("body", "")>>
          [] type = "shell" ->
               pattern \o <<FPtr("next_shell", ""), FPtr("subshell", ""),
                            FPtr("face", ""), FPtr("wire", ""),
                            FPtr("lump", "")>>
          [] type = "face" ->
               pattern \o <<FPtr("next_face", ""), FPtr("loop", ""),
                            FPtr("shell", ""), FPtr("subshell", ""),
                            FPtr("surface", ""),
                            FBool("sense", "reversed", "forward"),
                            FBool("double_sided", "double", "single"),
                            FBoolIfDouble("containment", "in", "out")>>
          [] type = "loop" ->
               pattern \o <<FPtr("next_loop", ""), FPtr("coedge", ""),
                            FPtr("face", "")>>
          [] type = "coedge" ->
               pattern \o <<FPtr("next_coedge", ""), FPtr("prev_coedge", ""),
                            FPtr("partner_coedge", ""), FPtr("edge", ""),
                            FBool("sense", "reversed", "forward"),
                            FPtr("loop", ""), FIntSkipSat("unknown"),
                            FPtr("pcurve", "")>>
          [] type = "edge" ->
               pattern \o <<FPtr("start_vertex", ""), FDouble("start_param"),
                            FPtr("end_vertex", ""), FDouble("end_param"),
                            FPtr("coedge", ""), FPtr("curve", ""),
                            FBool("sense", "reversed", "forward"),
                            FStr("convexity")>>
          [] type = "vertex" ->
               pattern \o <<FPtr("edge", ""), FIntSkipSat("unknown"),
                            FPtr("point", "")>>
          \* the classes that add no call to the one of SupportsPattern; the
          \* vectors of a plane-surface are left out: no entity of that
          \* class is written or restored here
          [] type \in {"wire", "subshell", "pcurve", "surface", "plane-surface",
                       "curve", "straight-curve", "point"} -> pattern
          [] OTHER -> <<>>

\* a mistaken gate: the version of the loader is not looked at
gated_always(version, threshold) == TRUE

\* loader.version >= Features.<threshold>
gated(version, threshold) == version >= threshold

\* the calls of restore_common of a class for a loader of this version, in
\* their order, super() first
RestoreFields(type, version, feat) ==
    LET pattern == IF gated(version, feat.PATTERN)
                   THEN <<FPtr("pattern", "pattern")>> ELSE <<>>
        tol(fields) == IF gated(version, feat.TOL_MODELING) THEN fields
                       ELSE <<>>
    IN  CASE type = "body" ->
               pattern \o <<FPtr("lump", "lump"), FPtr("wire", "wire"),
                            FPtr("transform", "transform")>>
          [] type = "lump" ->
               pattern \o <<FPtr("next_lump", "lump"), FPtr("shell", "shell"),
                            FPtr("body", "body")>>
          [] type = "shell" ->
               pattern \o <<FPtr("next_shell", "next_shell"),
                            FPtr("subshell", "subshell"), FPtr("face", "face"),
                            FPtr("wire", "wire"), FPtr("lump", "lump")>>
          [] type = "face" ->
               pattern \o <<FPtr("next_face", "face"), FPtr("loop", "loop"),
                            FPtr("shell", "shell"),
                            FPtr("subshell", "subshell"),
                            FPtr("surface", "surface"),
                            FBool("sense", "reversed", "forward"),
                            FBool("double_sided", "double", "single"),
                            FBoolIfDouble("containment", "in", "out")>>
          [] type = "loop" ->
               pattern \o <<FPtr("next_loop", "loop"),
                            FPtr("coedge", "coedge"), FPtr("face", "face")>>
          [] type = "coedge" ->
               pattern \o <<FPtr("next_coedge", "coedge"),
                            FPtr("prev_coedge", "coedge"),
                            FPtr("partner_coedge", "coedge"),
                            FPtr("edge", "edge"),
                            FBool("sense", "reversed", "forward"),
                            FPtr("loop", "loop"), FIntSkipSat("unknown"),
                            FPtr("pcurve", "pcurve")>>
          [] type = "edge" ->
               pattern \o <<FPtr("start_vertex", "vertex")>>
               \o tol(<<FDouble("start_param")>>)
               \o <<FPtr("end_vertex", "vertex")>>
               \o tol(<<FDouble("end_param")>>)
               \o <<FPtr("coedge", "coedge"), FPtr("curve", "curve"),
                    FBool("sense", "reversed", "forward")>>
               \o tol(<<FStr("convexity")>>)
          [] type = "vertex" ->
               pattern \o <<FPtr("edge", "edge"), FIntSkipSat("unknown"),
                            FPtr("point", "point")>>
          \* the classes that add no call to the one of SupportsPattern; the
          \* vectors of a plane-surface are left out: no entity of that
          \* class is written or restored here
          [] type \in {"wire", "subshell", "pcurve", "surface", "plane-surface",
                       "curve", "straight-curve", "point"} -> pattern
          [] OTHER -> <<>>

\* the class attributes that are not references, with their defaults
ScalarDefaults(type) ==
    CASE type = "face" ->
           [sense |-> PyBool(TRUE), double_sided |-> PyBool(FALSE),
            containment |-> PyBool(FALSE)]
      [] type = "coedge" -> [sense |-> PyBool(TRUE), unknown |-> PyInt(0)]
      [] type = "edge" ->
           [start_param |-> PyFloat(0), end_param |-> PyFloat(0),
            sense |-> PyBool(TRUE), convexity |-> PyStr("unknown")]
      [] type = "vertex" -> [unknown |-> PyInt(0)]
      [] OTHER -> <<>>

\* the classes decorated with @register, by their type name
ENTITY_TYPES ==
    {"transform", "asmheader", "body", "wire", "pattern", "lump", "shell",
     "subshell", "face", "surface", "plane-surface", "loop", "coedge", "edge",
     "pcurve", "vertex", "curve", "straight-curve", "point"}

\* the reference fields a class passes to write_ptr, in the order of its
\* write_common
PtrFields(type) ==
    LET ptrs == SelectSeq(WriteFields(type), LAMBDA d : d.kind = "ptr")
    IN  [i \in 1..Len(ptrs) |-> ptrs[i].f]

\* the expected type name a restore_common passes to restore_entity for a
\* reference field
Expected(f) ==
    CASE f = "next_lump" -> "lump"
      [] f = "next_shell" -> "next_shell"
      [] f = "next_face" -> "face"
      [] f = "next_loop" -> "loop"
      [] f \in {"next_coedge", "prev_coedge", "partner_coedge"} -> "coedge"
      [] f \in {"start_vertex", "end_vertex"} -> "vertex"
      [] OTHER -> f

\* name.endswith(suffix) for the type names used here
EndsWith(name, suffix) ==
    \/ name = suffix
    \/ <<name, suffix>> \in
          {<<"my-lump", "lump">>, <<"cone-surface", "surface">>,
           <<"plane-surface", "surface">>, <<"straight-curve", "curve">>,
           <<"subshell", "shell">>, <<"coedge", "edge">>, <<"pcurve", "curve">>}

\* a mistaken test: every record is accepted
accepts_any(expected_type, name) == TRUE

\* restore_entity accepts a record of this name where this type is expected
accepts(expected_type, name) == EndsWith(name, expected_type)

\* a mistaken base class: write_common of AcisEntity writes nothing
raises_on_write_never(type) == FALSE

\* the classes whose write_common is AcisEntity.write_common, which raises
\* ExportError: the base class and Pattern, which overrides nothing
raises_on_write(type) == type \in {UNSUPPORTED, "pattern"}

\* ENTITY_TYPES.get(raw_entity.name, AcisEntity)
entity_class(name) == IF name \in ENTITY_TYPES THEN name ELSE UNSUPPORTED

\* the entity FileLoader.entity_factory creates for a raw record: the class
\* found in the registry, every attribute at the default of the class, no id
new_typed(name) ==
    LET type == entity_class(name)
    IN  [raw |-> name, type |-> type,
         refs |-> [f \in Range(PtrFields(type)) |-> NONE_REF],
         vals |-> ScalarDefaults(type), id |-> <<>>, attributes |-> NONE_REF]

\* the exporter of the sat and sab modules: an entity is recorded at its first
\* visit, then writes itself; write_ptr visits the entity it is given.
\* st = [exc, visited]
RECURSIVE export_entity(_, _, _)
RECURSIVE write_ptrs(_, _, _, _)
export_entity(th, o, st) ==
    IF st.exc # "none" \/ o \in Range(st.visited) THEN st
    ELSE LET st1 == [st EXCEPT !.visited = Append(@, o)]
         IN  IF raises_on_write(th[o].type)
             THEN [st1 EXCEPT !.exc = "ExportError"]
             ELSE write_ptrs(th, o, 1, st1)

write_ptrs(th, o, i, st) ==
    LET fs == PtrFields(th[o].type)
    IN  IF i > Len(fs) \/ st.exc # "none" THEN st
        ELSE LET t == th[o].refs[fs[i]]
             IN  write_ptrs(th, o, i + 1,
                            IF t = NONE_REF THEN st ELSE export_entity(th, t, st))

RECURSIVE export_bodies(_, _, _, _)
export_bodies(th, bodies, i, st) ==
    IF i > Len(bodies) THEN st
    ELSE export_bodies(th, bodies, i + 1, export_entity(th, bodies[i], st))

\* the table of the hdr module: the versions the specification names and the
\* default version of export_sat
HDR_ACIS_VERSION == {400, 700, 20800}

MIN_EXPORT_VERSION == 700

\* const.is_valid_export_version
is_valid_export_version(version) ==
    version >= MIN_EXPORT_VERSION /\ version \in HDR_ACIS_VERSION

\* hdr.AcisHeader.set_version
hdr_set_version(version) ==
    IF version \in HDR_ACIS_VERSION THEN "none" ELSE "ValueError"

\* a mistaken _setup_export_header: the version is not checked
_setup_export_header_unchecked(version) == hdr_set_version(version)

\* _setup_export_header(version): the exception it raises, "none" if it
\* returns the header
_setup_export_header(version) ==
    IF ~is_valid_export_version(version) THEN "ExportError"
    ELSE hdr_set_version(version)

NoResult == [exc |-> "none", exporter |-> FALSE, visited |-> <<>>, out |-> <<>>]

\* export_sat / export_sab(bodies, version): [exc, exporter, visited, out];
\* out holds one record per exported entity, in the order of the first visit
export(th, bodies, version) ==
    LET h == _setup_export_header(version)
        st == export_bodies(th, bodies, 1, [exc |-> "none", visited |-> <<>>])
    IN  IF h # "none" THEN [NoResult EXCEPT !.exc = h]
        ELSE IF st.exc # "none"
        THEN [NoResult EXCEPT !.exc = st.exc, !.exporter = TRUE,
                              !.visited = st.visited]
        ELSE [NoResult EXCEPT !.exporter = TRUE, !.visited = st.visited,
                              !.out = [k \in 1..Len(st.visited) |->
                                          th[st.visited[k]].type]]

RawNames == {"body", "lump", "my-lump"}
ExportVersions == {400, 700, 800}
Formats == {"sat", "sab"}

TObjects == 1..Len(theap)

\* reference fields that are set
RECURSIVE TLinks(_)
TLinks(th) ==
    IF th = <<>> THEN 0
    ELSE Cardinality({f \in DOMAIN Head(th).refs : Head(th).refs[f] # NONE_REF})
         + TLinks(Tail(th))

XOps == Len(theap) + TLinks(theap)

NoExport == [fmt |-> "none", version |-> 0, bodies |-> <<>>]

\* entity = entity_factory(raw_entity) for a raw record not seen before
Factory(name) ==
    /\ xcall = NoExport
    /\ XOps < MaxXOps
    /\ theap' = Append(theap, new_typed(name))
    /\ UNCHANGED <<xcall, xres>>

\* o.f = restore_entity(expected, loader, entity_factory), the pointer read
\* being the record of t
SetField(o, f, t) ==
    /\ xcall = NoExport
    /\ XOps < MaxXOps
    /\ f \in DOMAIN theap[o].refs
    /\ theap[o].refs[f] = NONE_REF
    /\ accepts(Expected(f), theap[t].raw)
    /\ theap' = [theap EXCEPT ![o].refs[f] = t]
    /\ UNCHANGED <<xcall, xres>>

\* the Body entities, a list of them in the order of creation
BodyLists ==
    LET bs == {o \in TObjects : theap[o].type = "body"}
    IN  {sorted(B) : B \in SUBSET bs}

\* export_sat(bodies, version) or export_sab(bodies, version)
Export(fmt, bodies, version) ==
    /\ xcall = NoExport
    /\ xcall' = [fmt |-> fmt, version |-> version, bodies |-> bodies]
    /\ xres' = export(theap, bodies, version)
    /\ UNCHANGED theap

ExpInit ==
    /\ theap = <<>>
    /\ xcall = NoExport
    /\ xres = NoResult

ExpIdle == ExpInit

ExpNext ==
    \/ \E name \in RawNames : Factory(name)
    \/ \E o \in TObjects, t \in TObjects :
          \E f \in DOMAIN theap[o].refs : SetField(o, f, t)
    \/ \E fmt \in Formats, version \in ExportVersions, bodies \in BodyLists :
          Export(fmt, bodies, version)

-----------------------------------------------------------------------------
(* Typed entities: DataExporter and DataLoader calls, entity_factory,
   restore_entity, load_entities *)

\* the tokens one call of a DataExporter appends for an entity
write_field(e, d, fmt) ==
    CASE d.kind = "ptr" -> <<Ref(e.refs[d.f])>>
      [] d.kind = "double" -> <<Flt(e.vals[d.f].n)>>
      [] d.kind = "bool" ->
           <<Word(IF e.vals[d.f] = PyBool(TRUE) THEN d.a ELSE d.b)>>
      [] d.kind = "str" -> <<Word(e.vals[d.f].s)>>
      [] d.kind = "int" -> IF fmt = "sat" THEN <<>> ELSE <<Num(0)>>
      [] d.kind = "bool_if_double" ->
           IF e.vals.double_sided = PyBool(TRUE)
           THEN <<Word(IF e.vals[d.f] = PyBool(TRUE) THEN d.a ELSE d.b)>>
           ELSE <<>>

RECURSIVE write_fields(_, _, _, _)
write_fields(e, fields, i, fmt) ==
    IF i > Len(fields) THEN <<>>
    ELSE write_field(e, fields[i], fmt) \o write_fields(e, fields, i + 1, fmt)

\* the tokens entity.write_common(exporter) appends
write_common(e, fmt) == write_fields(e, WriteFields(e.type), 1, fmt)

\* a record of the loader: its name, id, attribute record and data, a
\* pointer being Ref(r) for the record r and Ref(0) for the null pointer
RawEntity(name, id, attr, dt) ==
    [name |-> name, id |-> id, attr |-> attr, data |-> dt]

\* the position of an entity in the order of the first visit
Position(visited, o) ==
    IF o = NONE_REF THEN 0 ELSE CHOOSE k \in 1..Len(visited) : visited[k] = o

\* exporter.export(body) for the entity `root` on an exporter of either
\* class: [exc, raws], one record per visited entity, pointers being
\* positions; no call of write_common looks at the version of the exporter
exporter_records(th, root, fmt) ==
    LET x == export_bodies(th, <<root>>, 1, [exc |-> "none", visited |-> <<>>])
        as_position(tok) == IF tok.k = "ref" THEN Ref(Position(x.visited, tok.n))
                    ELSE tok
        record_data(o) == LET toks == write_common(th[o], fmt)
                   IN  [p \in 1..Len(toks) |-> as_position(toks[p])]
    IN  IF x.exc # "none" THEN [exc |-> x.exc, raws |-> <<>>]
        ELSE [exc |-> "none",
              raws |-> [k \in 1..Len(x.visited) |->
                          RawEntity(th[x.visited[k]].raw, -1, 0,
                                    record_data(x.visited[k]))]]

\* export_sat / export_sab(bodies, version) from the entity `root` on
export_records(th, root, fmt, version) ==
    LET h == _setup_export_header(version)
    IN  IF h # "none" THEN [exc |-> h, raws |-> <<>>]
        ELSE exporter_records(th, root, fmt)

\* a field is part of the layout of a version
in_layout(d, version, feat) ==
    IF d.f = "pattern" THEN version >= feat.PATTERN
    ELSE IF d.f \in {"start_param", "end_param", "convexity"}
    THEN version >= feat.TOL_MODELING
    ELSE TRUE

\* the records of a file of this version written by another program: every
\* entity of the heap in the layout of the version, the first with an
\* attribute record
hand_records(th, fmt, version, feat, attr) ==
    LET record_data(o) ==
            write_fields(th[o],
                         SelectSeq(WriteFields(th[o].type),
                                   LAMBDA d : in_layout(d, version, feat)),
                         1, fmt)
    IN  [o \in 1..Len(th) |->
            RawEntity(th[o].raw, o + 10, IF o = 1 THEN attr ELSE 0,
                      record_data(o))]

\* the state of a FileLoader: entities (dict: id(raw_entity) -> instance),
\* the instances created, and what the load has done so far: the calls of
\* entity_factory, of restore_entity and of entity.load, and the tokens the
\* DataLoader has returned
FileLoader ==
    [dict |-> <<>>, insts |-> <<>>, calls |-> <<>>, rcalls |-> <<>>,
     loads |-> <<>>, reads |-> <<>>, exc |-> "none"]

\* a mistaken entity_factory: the dict is never looked up
entity_factory_fresh(L, uid, recs) ==
    LET n == Len(L.insts) + 1
    IN  [L |-> [L EXCEPT !.insts = Append(@, new_typed(recs[uid].name)),
                         !.dict = (uid :> n) @@ @,
                         !.calls = Append(@, [uid |-> uid, inst |-> n])],
         ent |-> n]

\* FileLoader.entity_factory(raw_entity): [L, ent]; uid is the record
entity_factory(L, uid, recs) ==
    IF uid \in DOMAIN L.dict
    THEN [L |-> [L EXCEPT !.calls =
                    Append(@, [uid |-> uid, inst |-> L.dict[uid]])],
          ent |-> L.dict[uid]]
    ELSE LET n == Len(L.insts) + 1
         IN  [L |-> [L EXCEPT !.insts = Append(@, new_typed(recs[uid].name)),
                              !.dict = (uid :> n) @@ @,
                              !.calls = Append(@, [uid |-> uid, inst |-> n])],
              ent |-> n]

\* restore_entity(expected_type, loader, entity_factory), the pointer read
\* by loader.read_ptr() being the record `target`: [L, exc, ent]
restore_entity(L, expected_type, target, recs) ==
    LET call(x, ent) == [expected |-> expected_type, target |-> target,
                         exc |-> x, ent |-> ent]
    IN  IF target = 0
        THEN [L |-> [L EXCEPT !.rcalls = Append(@, call("none", NONE_REF))],
              exc |-> "none", ent |-> NONE_REF]
        ELSE IF accepts(expected_type, recs[target].name)
        THEN LET r == entity_factory(L, target, recs)
             IN  [L |-> [r.L EXCEPT !.rcalls = Append(@, call("none", r.ent))],
                  exc |-> "none", ent |-> r.ent]
        ELSE [L |-> [L EXCEPT !.rcalls =
                        Append(@, call("ParsingError", NONE_REF)),
                              !.exc = "ParsingError"],
              exc |-> "ParsingError", ent |-> NONE_REF]

\* restore_common of the instance e from call i on, the loader standing at
\* position idx of the data dt of the record; a call of the DataLoader that
\* finds no token or a token of another kind raises ParsingError
RECURSIVE restore_fields(_, _, _, _, _, _, _, _)
restore_fields(L, e, fields, i, dt, idx, fmt, recs) ==
    IF i > Len(fields) \/ L.exc # "none" THEN L
    ELSE
      LET d == fields[i]
          has == idx <= Len(dt)
          tok == dt[idx]
          fail == [L EXCEPT !.exc = "ParsingError"]
          next(L1, n) ==
              restore_fields(L1, e, fields, i + 1, dt, idx + n, fmt, recs)
          rd == [L EXCEPT !.reads =
                    Append(@, [inst |-> e, f |-> d.f, idx |-> idx])]
          set(v) == [rd EXCEPT !.insts[e].vals[d.f] = v]
          bool == IF has /\ tok \in {Word(d.a), Word(d.b)}
                  THEN next(set(PyBool(tok = Word(d.a))), 1)
                  ELSE fail
      IN  CASE d.kind = "ptr" ->
                 IF ~has \/ tok.k # "ref" THEN fail
                 ELSE LET r == restore_entity(rd, d.a, tok.n, recs)
                      IN  IF r.exc # "none" THEN r.L
                          ELSE next([r.L EXCEPT !.insts[e].refs[d.f] = r.ent],
                                    1)
            [] d.kind = "double" ->
                 IF has /\ ParseFloat(tok).exc = "none"
                 THEN next(set(PyFloat(ParseFloat(tok).val)), 1)
                 ELSE fail
            [] d.kind = "bool" -> bool
            [] d.kind = "str" ->
                 IF has /\ tok.k = "w" THEN next(set(PyStr(tok.s)), 1)
                 ELSE fail
            [] d.kind = "int" ->
                 IF fmt = "sat"
                 THEN next([L EXCEPT !.insts[e].vals[d.f] = PyInt(0)], 0)
                 ELSE IF has /\ tok.k = "n" THEN next(set(PyInt(tok.n)), 1)
                 ELSE fail
            [] d.kind = "bool_if_double" ->
                 IF L.insts[e].vals.double_sided = PyBool(TRUE) THEN bool
                 ELSE next(L, 0)

\* FileLoader.load_entities from the record r on
RECURSIVE load_from(_, _, _, _, _, _)
load_from(L, r, recs, version, feat, fmt) ==
    IF r > Len(recs) \/ L.exc # "none" THEN L
    ELSE
      LET f1 == entity_factory(L, r, recs)
          e == f1.ent
          L1 == [f1.L EXCEPT !.insts[e].id = <<recs[r].id>>]
          f2 == entity_factory(L1, recs[r].attr, recs)
          L2 == IF recs[r].attr = 0 THEN L1
                ELSE [f2.L EXCEPT !.insts[e].attributes = f2.ent]
          L3 == [L2 EXCEPT !.loads = Append(@, r)]
          L4 == restore_fields(L3, e,
                               RestoreFields(L3.insts[e].type, version,
                                             feat),
                               1, recs[r].data, 1, fmt, recs)
      IN  load_from(L4, r + 1, recs, version, feat, fmt)

\* FileLoader.load_entities()
load_entities(recs, version, feat, fmt) ==
    load_from(FileLoader, 1, recs, version, feat, fmt)

-----------------------------------------------------------------------------
(* The caller of the typed layer: an entity and a neighbour, their records
   written by export or by another program, and the load of the records *)

\* non-default values of the scalar attributes
AltScalars(type) ==
    CASE type = "face" ->
           [sense |-> PyBool(FALSE), double_sided |-> PyBool(TRUE),
            containment |-> PyBool(TRUE)]
      [] type = "coedge" -> [sense |-> PyBool(FALSE), unknown |-> PyInt(0)]
      [] type = "edge" ->
           [start_param |-> PyFloat(15000000), end_param |-> PyFloat(25000000),
            sense |-> PyBool(FALSE), convexity |-> PyStr("convex")]
      [] OTHER -> ScalarDefaults(type)

EntityKinds ==
    {"body", "lump", "shell", "face", "loop", "coedge", "edge", "vertex"}
NeighbourKinds == {"shell", "vertex", "pattern", "my-lump"}
LoadVersions == {400, 500, 700}

\* the assignments of at most MaxLinks references of an entity of this
\* type, to itself (1), to its neighbour (2)
RefChoices(type) ==
    {r \in [Range(PtrFields(type)) -> {NONE_REF, 1, 2}] :
        Cardinality({f \in DOMAIN r : r[f] # NONE_REF}) <= MaxLinks}

\* the heaps of the caller: an entity with some references and scalars set,
\* and a neighbour as its class creates it
Heaps ==
    UNION {{<<[new_typed(kind) EXCEPT !.refs = r, !.vals = v], new_typed(n)>> :
               r \in RefChoices(kind),
               v \in {ScalarDefaults(kind), AltScalars(kind)},
               n \in NeighbourKinds} : kind \in EntityKinds}

NoLoad == [pc |-> "typed", by |-> "none", fmt |-> "none", version |-> 0,
           exc |-> "none"]

\* data = export_sat(bodies, version) or export_sab(bodies, version), the
\* entity being reached from the bodies
ExportRecords(fmt, version) ==
    /\ lenv.pc = "typed"
    /\ LET r == export_records(tents, 1, fmt, version)
       IN  /\ raws' = r.raws
           /\ lenv' = [lenv EXCEPT !.pc = "records", !.by = "export",
                                   !.fmt = fmt, !.version = version,
                                   !.exc = r.exc]
    /\ UNCHANGED <<tents, features, lres>>

\* sat.SatExporter(header) / sab.SabExporter(header) on a header set to the
\* version, and exporter.export(body): the two statements of export_sat and
\* export_sab after the version check, as a caller of the exporter classes
\* makes them
ExporterExport(fmt, version) ==
    /\ lenv.pc = "typed"
    /\ hdr_set_version(version) = "none"
    /\ LET r == exporter_records(tents, 1, fmt)
       IN  /\ raws' = r.raws
           /\ lenv' = [lenv EXCEPT !.pc = "records", !.by = "exporter",
                                   !.fmt = fmt, !.version = version,
                                   !.exc = r.exc]
    /\ UNCHANGED <<tents, features, lres>>

\* the records of the same entities in a file of another program
HandRecords(fmt, version, attr) ==
    /\ lenv.pc = "typed"
    /\ raws' = hand_records(tents, fmt, version, features, attr)
    /\ lenv' = [lenv EXCEPT !.pc = "records", !.by = "hand", !.fmt = fmt,
                            !.version = version]
    /\ UNCHANGED <<tents, features, lres>>

\* SatLoader / SabLoader: loader.load_entities() with the version of the
\* header
LoadEntities ==
    /\ lenv.pc = "records"
    /\ lenv.exc = "none"
    /\ lres' = load_entities(raws, lenv.version, features, lenv.fmt)
    /\ lenv' = [lenv EXCEPT !.pc = "loaded"]
    /\ UNCHANGED <<tents, features, raws>>

LoadInit ==
    /\ tents \in Heaps
    /\ features \in FeatureSets
    /\ raws = <<>>
    /\ lenv = NoLoad
    /\ lres = FileLoader

LoadIdle ==
    /\ tents = <<>>
    /\ features = [PATTERN |-> 700, TOL_MODELING |-> 700]
    /\ raws = <<>>
    /\ lenv = NoLoad
    /\ lres = FileLoader

LoadNext ==
    \/ \E fmt \in Formats, version \in LoadVersions : ExportRecords(fmt, version)
    \/ \E fmt \in Formats, version \in LoadVersions :
          ExporterExport(fmt, version)
    \/ \E fmt \in Formats, version \in LoadVersions, attr \in {0, 2} :
          HandRecords(fmt, version, attr)
    \/ LoadEntities

-----------------------------------------------------------------------------
(* AcisEntity.parse_data: the generic field reader of the record layer *)

\* float("inf")
PyInf == [k |-> "float", n |-> 0, s |-> "inf"]

\* a mistaken float field: the literal "I" is not decoded
field_float_no_inf(token) ==
    IF ParseFloat(token).exc = "none"
    THEN [exc |-> "none", val |-> PyFloat(ParseFloat(token).val)]
    ELSE [exc |-> "ParsingError", val |-> PyInf]

\* the field "f": token "I" becomes "inf", then float(token), a ValueError
\* being raised as ParsingError: [exc, val]
field_float(token) ==
    IF token = Word("I") THEN [exc |-> "none", val |-> PyInf]
    ELSE IF ParseFloat(token).exc = "none"
    THEN [exc |-> "none", val |-> PyFloat(ParseFloat(token).val)]
    ELSE [exc |-> "ParsingError", val |-> PyInf]

\* the field "i": int(token), a ValueError being raised as ParsingError
field_int(token) ==
    IF ParseInt(token).exc = "none"
    THEN [exc |-> "none", val |-> PyInt(ParseInt(token).val)]
    ELSE [exc |-> "ParsingError", val |-> PyInt(0)]

\* the entities a data token of the caller points to: a lump and NULL_PTR
PdLump == 1

\* token.name of a data item that is an AcisEntity
token_name(token) == IF token.n = NullObj THEN "null-ptr" ELSE "lump"

\* fields = fmt.split(";"); fields.reverse()
reversed(fmt) == [i \in 1..Len(fmt) |-> fmt[Len(fmt) + 1 - i]]

\* list.pop() of a list that is not empty
popped(fields) == SubSeq(fields, 1, Len(fields) - 1)

\* the loop of parse_data from token i on: [exc, content]; fields[-1] and
\* fields.pop() of an empty list raise IndexError
RECURSIVE parse_data_from(_, _, _, _, _)
parse_data_from(dt, i, fields, next_is_user_string, content) ==
    IF i > Len(dt) THEN [exc |-> "none", content |-> content]
    ELSE IF next_is_user_string
    THEN parse_data_from(dt, i + 1, fields, FALSE, Append(content, dt[i]))
    ELSE IF fields = <<>> THEN [exc |-> "IndexError", content |-> <<>>]
    ELSE
      LET token == dt[i]
          expected == fields[Len(fields)]
          rest == popped(fields)
          \* if len(fields) == 0: break
          go(fs, c) == IF fs = <<>> THEN [exc |-> "none", content |-> c]
                       ELSE parse_data_from(dt, i + 1, fs, FALSE, c)
          num == IF expected = "f" THEN field_float(token)
                 ELSE field_int(token)
      IN  IF is_entity(token)
          THEN IF expected = token_name(token)
               THEN go(rest, Append(content, token))
               ELSE go(fields, content)
          ELSE IF expected \in {"f", "i"}
          THEN IF num.exc # "none" THEN [exc |-> num.exc, content |-> <<>>]
               ELSE go(rest, Append(content, num.val))
          ELSE IF expected = "s" THEN go(rest, Append(content, token))
          ELSE IF expected = "@"
          THEN parse_data_from(dt, i + 1, rest, TRUE, content)
          ELSE IF expected = "?" THEN go(rest, content)
          ELSE [exc |-> "ValueError", content |-> <<>>]

\* entity.parse_data(fmt) of an entity with the data dt
parse_data(dt, fmt) == parse_data_from(dt, 1, reversed(fmt), FALSE, <<>>)

-----------------------------------------------------------------------------
(* The caller of parse_data: an entity with some data and a format *)

MaxToks == 3       \* data items of the entity
MaxFields == 2     \* fields of the format

PdTokens == {Num(3), Word("I"), Word("forward"), Ref(PdLump), Ref(NullObj)}
PdFields == {"f", "i", "s", "@", "?", "lump"}

SeqsUpTo(S, n) == UNION {[1..k -> S] : k \in 0..n}

\* content = entity.parse_data(fmt)
ParseData ==
    /\ pdres.pc = "idle"
    /\ LET r == parse_data(pdcall.data, pdcall.fmt)
       IN  pdres' = [pc |-> "done", exc |-> r.exc, content |-> r.content]
    /\ UNCHANGED pdcall

PdInit ==
    /\ pdcall \in [data : SeqsUpTo(PdTokens, MaxToks),
                   fmt : SeqsUpTo(PdFields, MaxFields) \ {<<>>}]
    /\ pdres = [pc |-> "idle", exc |-> "none", content |-> <<>>]

PdIdle ==
    /\ pdcall = [data |-> <<>>, fmt |-> <<"s">>]
    /\ pdres = [pc |-> "idle", exc |-> "none", content |-> <<>>]

PdNext == ParseData

-----------------------------------------------------------------------------
(* AcisDebugger: the ids it assigns and the walk over an entity graph *)

\* NONE_REF = NoneEntity(): the type of the class, no id, no attribute of
\* its own
NoneEntity == [type |-> "none-entity", id |-> <<>>, vars |-> <<>>]

\* an entity of a registered class as its constructor leaves it; vars are
\* the values of vars(entity) that are objects, in the order they were set
new_entity(name) ==
    [type |-> new_typed(name).type, id |-> new_typed(name).id, vars |-> <<>>]

\* a mistaken attribute: an id that was never set reads as -1
attr_id_default(ent) == IF ent.id = <<>> THEN <<-1>> ELSE ent.id

\* entity.id: <<n>>, or <<>> when the read raises AttributeError
attr_id(ent) == ent.id

\* entity.is_none
is_none(ent) == ent.type = NoneEntity.type

\* isinstance(e, AcisEntity): NONE_REF is a NoneEntity only
isinstance_AcisEntity(o) == o # NONE_REF

MaxEnts == 2       \* entities of the caller

\* the depth at which the interpreter gives up a recursion
RecursionLimit == 2 * MaxEnts + 2

\* AcisDebugger._store_entities(entity) and its loop over vars(entity) from
\* the k-th value on. D = [th, next_id, root, entities, exc]: the objects and
\* the attributes of the debugger
RECURSIVE store_entities(_, _, _)
RECURSIVE store_values(_, _, _, _)
store_entities(D, entity, depth) ==
    IF depth > RecursionLimit THEN [D EXCEPT !.exc = "RecursionError"]
    ELSE IF ~is_none(D.th[entity]) /\ attr_id(D.th[entity]) = <<>>
    THEN [D EXCEPT !.exc = "AttributeError"]
    ELSE
      LET fresh == ~is_none(D.th[entity]) /\ attr_id(D.th[entity]) = <<-1>>
          \* entity.id = self._get_id()
          D1 == IF fresh
                THEN [D EXCEPT !.next_id = @ + 1,
                               !.th[entity].id = <<D.next_id + 1>>]
                ELSE D
      IN  \* self.entities[entity.id] = entity
          IF attr_id(D1.th[entity]) = <<>>
          THEN [D1 EXCEPT !.exc = "AttributeError"]
          ELSE store_values(
                 [D1 EXCEPT !.entities =
                     (attr_id(D1.th[entity])[1] :> entity) @@ @],
                 entity, 1, depth)

store_values(D, entity, k, depth) ==
    IF D.exc # "none" \/ k > Len(D.th[entity].vars) THEN D
    ELSE
      LET e == D.th[entity].vars[k]
      IN  IF ~isinstance_AcisEntity(e)
          THEN store_values(D, entity, k + 1, depth)
          ELSE IF attr_id(D.th[e]) = <<>>
          THEN [D EXCEPT !.exc = "AttributeError"]
          ELSE IF attr_id(D.th[e]) = <<-1>>
          THEN store_values(store_entities(D, e, depth + 1), entity, k + 1,
                            depth)
          ELSE store_values(D, entity, k + 1, depth)

\* AcisDebugger(root, start_id)
AcisDebugger(th, root, start_id) ==
    LET D == [th |-> th, next_id |-> start_id - 1, root |-> root,
              entities |-> <<>>, exc |-> "none"]
    IN  IF is_none(th[root]) THEN D ELSE store_entities(D, root, 1)

\* debugger.set_entities(entity)
dbg_set_entities(D, entity) ==
    store_entities([D EXCEPT !.entities = <<>>, !.root = entity,
                             !.exc = "none"], entity, 1)

\* _walk(entity) of AcisDebugger.walk and its loop over vars(entity) from
\* the k-th value on. W = [out, done, exc]: the entities yielded so far and
\* the set of ids
RECURSIVE walk_entity(_, _, _, _)
RECURSIVE walk_values(_, _, _, _, _)
walk_entity(th, W, entity, depth) ==
    IF depth > RecursionLimit THEN [W EXCEPT !.exc = "RecursionError"]
    ELSE IF is_none(th[entity]) THEN W
    ELSE
      LET W1 == [W EXCEPT !.out = Append(@, entity)]
      IN  IF attr_id(th[entity]) = <<>>
          THEN [W1 EXCEPT !.exc = "AttributeError"]
          ELSE walk_values(th,
                           [W1 EXCEPT !.done = @ \cup {attr_id(th[entity])[1]}],
                           entity, 1, depth)

walk_values(th, W, entity, k, depth) ==
    IF W.exc # "none" \/ k > Len(th[entity].vars) THEN W
    ELSE
      LET e == th[entity].vars[k]
      IN  IF ~isinstance_AcisEntity(e)
          THEN walk_values(th, W, entity, k + 1, depth)
          ELSE IF attr_id(th[e]) = <<>>
          THEN [W EXCEPT !.exc = "AttributeError"]
          ELSE IF attr_id(th[e])[1] \notin W.done
          THEN walk_values(th, walk_entity(th, W, e, depth + 1), entity,
                           k + 1, depth)
          ELSE walk_values(th, W, entity, k + 1, depth)

\* list(debugger.walk(root))
walk(D, root) ==
    walk_entity(D.th, [out |-> <<>>, done |-> {}, exc |-> "none"],
                IF is_none(D.th[root]) THEN D.root ELSE root, 1)

-----------------------------------------------------------------------------
(* The caller of the debugger: entities made by their constructor, linked
   and numbered, then a debugger and a walk *)

\* the ids a caller or a loader sets, and the start ids of a debugger
DbgIds == {-1, 1}
StartIds == {-1, 1}

DbgObjs == DOMAIN dheap \ {NONE_REF}

\* entity = Body()
MakeEntity ==
    /\ dbg.op = "none"
    /\ Cardinality(DbgObjs) < MaxEnts
    /\ dheap' = ((Cardinality(DbgObjs) + 1) :> new_entity("body")) @@ dheap
    /\ UNCHANGED <<dbg, dwalk>>

\* entity.id = n, as load_entities does with the id of the record
AssignId(o, n) ==
    /\ dbg.op = "none"
    /\ dheap[o].id = <<>>
    /\ dheap' = [dheap EXCEPT ![o].id = <<n>>]
    /\ UNCHANGED <<dbg, dwalk>>

\* entity.field = target, a field not set before
AssignField(o, target) ==
    /\ dbg.op = "none"
    /\ target \notin Range(dheap[o].vars)
    /\ dheap' = [dheap EXCEPT ![o].vars = Append(@, target)]
    /\ UNCHANGED <<dbg, dwalk>>

\* debugger = AcisDebugger(root, start_id)
NewDebugger(root, start_id) ==
    /\ dbg.op = "none"
    /\ LET D == AcisDebugger(dheap, root, start_id)
       IN  /\ dheap' = D.th
           /\ dbg' = [made |-> D.exc = "none", next_id |-> D.next_id,
                      root |-> D.root, entities |-> D.entities,
                      exc |-> D.exc, op |-> "init", arg |-> root,
                      before |-> [th |-> dheap, next_id |-> start_id - 1]]
    /\ UNCHANGED dwalk

\* debugger.set_entities(root)
SetEntities(root) ==
    /\ dbg.made
    /\ dbg.op = "init"
    /\ dwalk.pc = "idle"
    /\ LET D == dbg_set_entities([th |-> dheap, next_id |-> dbg.next_id,
                                  root |-> dbg.root,
                                  entities |-> dbg.entities, exc |-> "none"],
                                 root)
       IN  /\ dheap' = D.th
           /\ dbg' = [dbg EXCEPT !.next_id = D.next_id, !.root = D.root,
                                 !.entities = D.entities, !.exc = D.exc,
                                 !.op = "set_entities", !.arg = root,
                                 !.before = [th |-> dheap,
                                             next_id |-> dbg.next_id]]
    /\ UNCHANGED dwalk

\* list(debugger.walk(root))
Walk(root) ==
    /\ dbg.made
    /\ dwalk.pc = "idle"
    /\ LET W == walk([th |-> dheap, root |-> dbg.root], root)
       IN  dwalk' = [pc |-> "done", root |-> root, out |-> W.out,
                     exc |-> W.exc]
    /\ UNCHANGED <<dheap, dbg>>

DbgInit ==
    /\ dheap = (NONE_REF :> NoneEntity)
    /\ dbg = [made |-> FALSE, next_id |-> 0, root |-> NONE_REF,
              entities |-> <<>>, exc |-> "none", op |-> "none",
              arg |-> NONE_REF,
              before |-> [th |-> (NONE_REF :> NoneEntity), next_id |-> 0]]
    /\ dwalk = [pc |-> "idle", root |-> NONE_REF, out |-> <<>>,
                exc |-> "none"]

DbgIdle == DbgInit

DbgNext ==
    \/ MakeEntity
    \/ \E o \in DbgObjs, n \in DbgIds : AssignId(o, n)
    \/ \E o \in DbgObjs, target \in DOMAIN dheap : AssignField(o, target)
    \/ \E root \in DOMAIN dheap, start_id \in StartIds :
          NewDebugger(root, start_id)
    \/ \E root \in DOMAIN dheap : SetEntities(root)
    \/ \E root \in DOMAIN dheap : Walk(root)

-----------------------------------------------------------------------------
(* Specifications *)

Init == SatInit /\ HdrIdle /\ ExpIdle /\ LoadIdle /\ PdIdle /\ DbgIdle

Next == SatNext /\ UNCHANGED <<hdrVars, expVars, loadVars, pdVars, dbgVars>>

Spec == Init /\ [][Next]_vars

TextSpecInit == TextInit /\ HdrIdle /\ ExpIdle /\ LoadIdle /\ PdIdle /\ DbgIdle

TextSpecNext == TextNext /\ UNCHANGED <<hdrVars, expVars, loadVars, pdVars, dbgVars>>

SpecText == TextSpecInit /\ [][TextSpecNext]_vars

HeaderTextSpecInit == HeaderTextInit /\ HdrIdle /\ ExpIdle /\ LoadIdle /\ PdIdle /\ DbgIdle

HeaderTextSpecNext == HeaderTextNext /\ UNCHANGED <<hdrVars, expVars, loadVars, pdVars, dbgVars>>

SpecHeaderText == HeaderTextSpecInit /\ [][HeaderTextSpecNext]_vars

HdrSpecInit == SatIdle /\ HdrInit /\ ExpIdle /\ LoadIdle /\ PdIdle /\ DbgIdle

HdrSpecNext == HdrNext /\ UNCHANGED <<satVars, expVars, loadVars, pdVars, dbgVars>>

SpecHeader == HdrSpecInit /\ [][HdrSpecNext]_vars

ExpSpecInit == SatIdle /\ HdrIdle /\ ExpInit /\ LoadIdle /\ PdIdle /\ DbgIdle

ExpSpecNext == ExpNext /\ UNCHANGED <<satVars, hdrVars, loadVars, pdVars, dbgVars>>

SpecExport == ExpSpecInit /\ [][ExpSpecNext]_vars

LoadSpecInit == SatIdle /\ HdrIdle /\ ExpIdle /\ LoadInit /\ PdIdle /\ DbgIdle

LoadSpecNext == LoadNext /\ UNCHANGED <<satVars, hdrVars, expVars, pdVars, dbgVars>>

SpecLoad == LoadSpecInit /\ [][LoadSpecNext]_vars

PdSpecInit == SatIdle /\ HdrIdle /\ ExpIdle /\ LoadIdle /\ PdInit /\ DbgIdle

PdSpecNext == PdNext /\ UNCHANGED <<satVars, hdrVars, expVars, loadVars, dbgVars>>

SpecParseData == PdSpecInit /\ [][PdSpecNext]_vars

DbgSpecInit == SatIdle /\ HdrIdle /\ ExpIdle /\ LoadIdle /\ PdIdle /\ DbgInit

DbgSpecNext ==
    DbgNext /\ UNCHANGED <<satVars, hdrVars, expVars, loadVars, pdVars>>

SpecDebugger == DbgSpecInit /\ [][DbgSpecNext]_vars

\* one program that uses one part of the library: the record layer, the
\* export of typed entities, their load or the debugger
AnyInit == Init \/ ExpSpecInit \/ LoadSpecInit \/ DbgSpecInit

AnyNext ==
    \/ pc # "idle" /\ Next
    \/ pc = "idle" /\ LoadIdle /\ DbgIdle /\ ExpSpecNext
    \/ pc = "idle" /\ tents # <<>> /\ ExpIdle /\ DbgIdle /\ LoadSpecNext
    \/ pc = "idle" /\ ExpIdle /\ LoadIdle /\ DbgSpecNext

SpecAny == AnyInit /\ [][AnyNext]_vars

-----------------------------------------------------------------------------
(* Properties of the record layer *)

Listed == Range(entities)

\* the references of the caller's listed entities
RefsOf(e) ==
    {e.attributes} \cup {e.data[p].n : p \in {q \in 1..Len(e.data) : is_entity(e.data[q])}}

OwnRefsOnly == \A o \in Listed : RefsOf(heap[o]) \subseteq Listed \cup {NullObj}

\* the loaded reference lo stands where the caller's reference o stood
SameTarget(o, lo) ==
    IF o = NullObj THEN lo = NullObj
    ELSE /\ lo # NullObj
         /\ \E j \in 1..Len(entities) :
               /\ j <= Len(loaded.entities)
               /\ entities[j] = o
               /\ loaded.entities[j] = lo

SameEntity(e, l) ==
    /\ l.name = e.name
    /\ SameTarget(e.attributes, l.attributes)
    /\ Len(l.data) = Len(e.data)
    /\ \A p \in 1..Len(e.data) :
          IF is_entity(e.data[p])
          THEN is_entity(l.data[p]) /\ SameTarget(e.data[p].n, l.data[p].n)
          ELSE l.data[p] = Str(e.data[p])
    /\ header.version >= 700 => l.id = e.id

\* C1: parse_sat(builder.dump_sat()) returns, for every builder whose
\* entities reference only NULL_PTR or listed entities and for every header
\* version, an entity list of the same length in which entity k has the same
\* name, the same scalar tokens at the same positions, references to the
\* entities at the same list positions, and the same id from version 700 on.
C1_RoundTrip ==
    (origin = "dump" /\ OwnRefsOnly /\ pc = "parsed") =>
        /\ exc = "none"
        /\ Len(loaded.entities) = Len(entities)
        /\ \A k \in 1..Len(entities) :
              SameEntity(heap[entities[k]], loaded.heap[loaded.entities[k]])

C1_Witness ==
    /\ origin = "dump" /\ pc = "parsed" /\ exc = "none"
    /\ header.version >= 700
    /\ Len(entities) = 2
    /\ heap[entities[1]].id # -1
    /\ \E p \in 1..Len(heap[entities[1]].data) :
          heap[entities[1]].data[p] = Ref(entities[2])

\* position of the token of data item p in a record's tokens
DataTok(version, p) == (IF version >= 700 THEN 3 ELSE 2) + p

\* the loaded reference lo is the entity built from the record numbered m
Resolves(tok, lo) ==
    (is_ptr(tok) /\ tok.n # -1) =>
        /\ lo \in Range(loaded.entities)
        /\ records[lo].num = tok.n
        /\ \A j \in 1..Len(records) : records[j].num = tok.n => j <= lo

\* C2: whenever parse_sat returns, every entity referenced from the
\* attributes or data of a listed entity is NULL_PTR or a listed entity, and
\* a pointer to record number m (also one defined later in the stream)
\* resolves to the entity built from the record numbered m.
C2_PointerIntegrity ==
    (pc = "parsed" /\ exc = "none") =>
        \A o \in Range(loaded.entities) :
            LET e == loaded.heap[o]
                t == records[o].tokens
            IN  /\ RefsOf(e) \subseteq Range(loaded.entities) \cup {NullObj}
                /\ Resolves(t[2], e.attributes)
                /\ \A p \in 1..Len(e.data) :
                      Resolves(t[DataTok(loaded.header.version, p)], e.data[p].n)

C2_Witness ==
    /\ pc = "parsed" /\ exc = "none" /\ origin = "raw"
    /\ Len(records) = 2
    /\ records[1].tokens[2] = Ptr(records[2].num)
    /\ loaded.heap[1].attributes = 2
    /\ Len(loaded.entities) = 2

\* C3: a structural failure of parse_sat (unregistered pointer target,
\* malformed header) is raised as ParsingError and as no other exception.
C3_StructuralErrorsAreParsingErrors ==
    pc = "parsed" => exc \in {"none", "ParsingError"}

\* C4: on load every "$-1" token, attribute or data, becomes the one
\* NULL_PTR object; on export every reference to NULL_PTR is written, as
\* "$-1" and never as an index.
C4_NullHandling ==
    /\ (pc = "parsed" /\ exc = "none") =>
          \A o \in Range(loaded.entities) :
              LET e == loaded.heap[o]
                  t == records[o].tokens
              IN  /\ t[2] = Ptr(-1) => e.attributes = NullObj
                  /\ \A p \in 1..Len(e.data) :
                        t[DataTok(loaded.header.version, p)] = Ptr(-1)
                            => e.data[p] = Ref(NullObj)
    /\ (origin = "dump" /\ OwnRefsOnly) =>
          /\ pc = "dumped" => exc = "none"
          /\ Len(data) = Len(entities) + 4
          /\ \A k \in 1..Len(entities) :
                LET e == heap[entities[k]]
                    t == data[3 + k]
                IN  /\ e.attributes = NullObj => t[2] = Ptr(-1)
                    /\ \A p \in 1..Len(e.data) :
                          e.data[p] = Ref(NullObj)
                              => t[DataTok(header.version, p)] = Ptr(-1)

C4_Witness ==
    /\ pc = "parsed" /\ exc = "none" /\ origin = "dump"
    /\ Len(entities) >= 1
    /\ heap[entities[1]].attributes = NullObj
    /\ Len(heap[entities[1]].data) = 1
    /\ heap[entities[1]].data[1] = Ref(NullObj)
    /\ loaded.heap[loaded.entities[1]].data[1] = Ref(NullObj)

\* C5: dump_sat of a builder in which a listed entity references, through
\* its attributes or a data item, an entity that is neither NULL_PTR nor
\* listed raises InvalidLinkStructure and returns no output.
C5_InvalidLink ==
    (origin = "dump" /\ ~OwnRefsOnly) =>
        /\ exc = "InvalidLinkStructure"
        /\ data = <<>>

C5_Witness ==
    /\ origin = "dump" /\ ~OwnRefsOnly
    /\ \E o \in Listed : heap[o].attributes \in Listed

\* C6: in the output of dump_sat the k-th record line is the record of
\* entities[k], every pointer written for a reference to an entity is "$j"
\* with 0 <= j < number of records and entities[j] the referenced entity, so
\* no two entities get the same index.
C6_DenseIndices ==
    (origin = "dump" /\ exc = "none") =>
        /\ Len(data) = Len(entities) + 4
        /\ \A k \in 1..Len(entities) :
              LET e == heap[entities[k]]
                  t == data[3 + k]
                  dense(tok, o) ==
                      o # NullObj =>
                          /\ is_ptr(tok)
                          /\ 0 <= tok.n /\ tok.n < Len(entities)
                          /\ entities[tok.n + 1] = o
              IN  /\ t[1] = e.name
                  /\ Len(t) = DataTok(header.version, Len(e.data)) + 1
                  /\ dense(t[2], e.attributes)
                  /\ \A p \in 1..Len(e.data) :
                        is_entity(e.data[p]) =>
                            dense(t[DataTok(header.version, p)], e.data[p].n)

C6_Witness ==
    /\ origin = "dump" /\ exc = "none" /\ pc = "dumped"
    /\ Len(entities) = 2
    /\ heap[entities[2]].attributes = entities[2]
    /\ data[5][2] = Ptr(1)

\* the record lines of a text: after the header, before the end marker
RecordLines(d) ==
    LET body == SubSeq(d, 4, Len(d))
    IN  SelectSeq(body, LAMBDA line : line[1] # EndOfData)

\* C7: parse_records numbers the records 0, 1, 2, ... in stream order; a
\* record whose first token is "-N" gets the number N and loses that token,
\* and a record without a directive gets the previous number plus one.
C7_Renumbering ==
    (pc = "parsed" /\ GoodHeader(data)) =>
        LET lines == RecordLines(data)
        IN  /\ Len(records) = Len(lines)
            /\ \A i \in 1..Len(lines) :
                  LET t == lines[i]
                  IN  IF t[1].k = "n" /\ t[1].n < 0
                      THEN /\ records[i].num = 0 - t[1].n
                           /\ records[i].tokens = SubSeq(t, 2, Len(t) - 1)
                      ELSE /\ records[i].num =
                                 (IF i = 1 THEN 0 ELSE records[i - 1].num + 1)
                           /\ records[i].tokens = SubSeq(t, 1, Len(t) - 1)

C7_Witness ==
    /\ pc = "parsed" /\ origin = "raw" /\ Len(records) = 2
    /\ data[4][1] = Num(-2)
    /\ records[1].num = 2
    /\ records[2].num = 3

-----------------------------------------------------------------------------
(* Properties of the typed layer and of the header *)

\* the entities an export of the bodies has to write: the bodies and what
\* the reference fields lead to
RECURSIVE Closure(_)
Closure(S) ==
    LET step == S \cup {t \in TObjects :
                          \E o \in S : \E f \in DOMAIN theap[o].refs :
                              theap[o].refs[f] = t}
    IN  IF step = S THEN S ELSE Closure(step)

MustWrite == Closure(Range(xcall.bodies))

\* C8: a record whose type name is not registered becomes an entity of the
\* base class AcisEntity, and an export_sat or export_sab call that has to
\* write such an entity raises ExportError and returns no output.
C8_UnsupportedExport ==
    /\ \A o \in TObjects :
          theap[o].raw \notin ENTITY_TYPES => theap[o].type = UNSUPPORTED
    /\ (xcall # NoExport /\ \E o \in MustWrite : theap[o].type = UNSUPPORTED) =>
          /\ xres.exc = "ExportError"
          /\ xres.out = <<>>

C8_Witness ==
    /\ xcall # NoExport
    /\ xcall.version = 700
    /\ xres.exc = "ExportError"
    /\ \E b \in Range(xcall.bodies) :
          /\ theap[b].refs["lump"] # NONE_REF
          /\ theap[theap[b].refs["lump"]].type = "lump"
          /\ \E f \in DOMAIN theap[theap[b].refs["lump"]].refs :
                /\ theap[theap[b].refs["lump"]].refs[f] # NONE_REF
                /\ theap[theap[theap[b].refs["lump"]].refs[f]].type = UNSUPPORTED

\* C9: export_sat and export_sab check the version first: a version below
\* 700, or one that is not accepted, raises ExportError before an exporter
\* exists and before a body is visited, and nothing is returned; with an
\* accepted version (700) the header is set up and the bodies are exported.
C9_VersionFirst ==
    xcall # NoExport =>
        IF xcall.version < 700 \/ xcall.version \notin HDR_ACIS_VERSION
        THEN /\ xres.exc = "ExportError"
             /\ ~xres.exporter
             /\ xres.visited = <<>>
             /\ xres.out = <<>>
        ELSE /\ xres.exporter
             /\ xres.exc \in {"none", "ExportError"}
             /\ Range(xcall.bodies) \subseteq Range(xres.visited)
                    \/ xres.exc = "ExportError"
             /\ xres.exc = "none" => Range(xres.visited) = MustWrite

C9_Witness ==
    /\ xcall # NoExport
    /\ xcall.version = 400
    /\ xcall.bodies # <<>>
    /\ xres.exc = "ExportError"
    /\ ~xres.exporter

\* C10: set_version(v) with v in the version table sets the number and the
\* string, so that the string is the table's entry of the number; with any
\* other v it raises and leaves both as they were.  After any sequence of
\* set_version calls on a fresh header the string is the table's entry of
\* the number.
C10_SetVersion ==
    /\ hdr.version \in DOMAIN ACIS_VERSION
    /\ hdr.acis_version = ACIS_VERSION[hdr.version]
    /\ hcall.op = "set_version" =>
          IF hcall.arg \in DOMAIN ACIS_VERSION
          THEN /\ hcall.exc = "none"
               /\ hdr.version = hcall.arg
               /\ hdr.acis_version = ACIS_VERSION[hcall.arg]
          ELSE /\ hcall.exc = "ValueError"
               /\ hdr.version = hcall.before.version
               /\ hdr.acis_version = hcall.before.acis_version

C10_Witness ==
    /\ hcall.op = "set_version"
    /\ hcall.arg = 700
    /\ hcall.exc = "ValueError"
    /\ hdr.version = 20800

-----------------------------------------------------------------------------
(* Properties of record accumulation (hand-written texts) *)

\* the physical lines after the header
TextBody(d) == SubSeq(d, 4, Len(d))

StopLine(line) == line # <<>> /\ line[1] \in {EndOfData, BeginOfHistory}

\* the lines in front of the first terminator line
BeforeStop(lines) ==
    LET stops == {i \in 1..Len(lines) : StopLine(lines[i])}
    IN  IF stops = {} THEN lines
        ELSE SubSeq(lines, 1, (CHOOSE i \in stops : \A j \in stops : i <= j) - 1)

\* the tokens of some lines, in order
RECURSIVE Flat(_)
Flat(lines) ==
    IF lines = <<>> THEN <<>>
    ELSE SelectSeq(Head(lines), LAMBDA t : t # Blank) \o Flat(Tail(lines))

\* the physical lines whose last character is "#"
Closed(lines) ==
    {i \in 1..Len(lines) : lines[i] # <<>> /\ lines[i][Len(lines[i])] = EndMark}

\* the number of "#" tokens
Hashes(toks) == Cardinality({p \in 1..Len(toks) : toks[p] = EndMark})

\* the k-th smallest element of a set of numbers, 0 for k = 0
Kth(S, k) == IF k = 0 THEN 0 ELSE sorted(S)[k]

RecordsReturned == parse_records(TextBody(data)).exc = "none"

\* C16 as stated: lines are joined until a token ends with "#"; no Record
\* contains a "#" token and each "#"-terminated record of the input yields
\* exactly one Record.
C16_TokenAccumulation ==
    (origin = "text" /\ pc = "parsed" /\ RecordsReturned) =>
        LET toks == Flat(BeforeStop(TextBody(data)))
        IN  /\ \A k \in 1..Len(records) : EndMark \notin Range(records[k].tokens)
            /\ Len(records) = Hashes(toks)

\* every "#" of the text is the last character of its physical line
HashEndsLine(lines) ==
    \A i \in 1..Len(lines) : \A p \in 1..Len(lines[i]) :
        lines[i][p] = EndMark => p = Len(lines[i])

\* What the code does for C16's inputs: lines are joined until a physical
\* line ends with "#"; the joined line is split on whitespace, its last
\* token is dropped (and a leading "-N" directive), all other tokens are
\* kept in order; when every "#" ends its physical line, no Record contains
\* "#" and each "#"-terminated record yields exactly one Record.
C16_LineAccumulation ==
    (origin = "text" /\ pc = "parsed" /\ RecordsReturned) =>
        LET lines == BeforeStop(TextBody(data))
            closed == Closed(lines)
        IN  /\ Len(records) = Cardinality(closed)
            /\ \A k \in 1..Len(records) :
                  LET toks == Flat(SubSeq(lines, Kth(closed, k - 1) + 1,
                                          Kth(closed, k)))
                      from == IF toks[1].k = "n" /\ toks[1].n < 0 THEN 2 ELSE 1
                  IN  records[k].tokens = SubSeq(toks, from, Len(toks) - 1)
            /\ HashEndsLine(lines) =>
                  /\ \A k \in 1..Len(records) :
                        EndMark \notin Range(records[k].tokens)
                  /\ Len(records) = Hashes(Flat(lines))

C16_Witness ==
    /\ origin = "text" /\ pc = "parsed" /\ exc = "none"
    /\ Len(data) = 5
    /\ ~(data[4] # <<>> /\ data[4][Len(data[4])] = EndMark)
    /\ data[5] = <<Word("forward"), EndMark>>
    /\ Len(records) = 1
    /\ records[1].tokens[Len(records[1].tokens)] = Word("forward")

\* C17: once a line that begins with "End-of-ACIS-data" or
\* "Begin-of-ACIS-History-Data" is read, no Record is produced from that
\* line or a later one, and every record completed before it is produced.
C17_StopsAtTerminator ==
    (origin = "text" /\ pc = "parsed" /\ RecordsReturned) =>
        LET lines == TextBody(data)
            pre == BeforeStop(lines)
        IN  /\ Len(records) = Cardinality(Closed(pre))
            /\ records = parse_records(pre).records

C17_Witness ==
    /\ origin = "text" /\ pc = "parsed"
    /\ Len(data) = 6
    /\ data[5] = <<BeginOfHistory>>
    /\ data[6] # <<>> /\ data[6][Len(data[6])] = EndMark
    /\ Len(records) = 1

\* C18: the loaded builder holds as many entities as there are parsed
\* records, and the entity of every record is registered, with that record's
\* name; no record's entity is replaced or lost.
C18_OneEntityPerRecord ==
    (origin = "text" /\ pc = "parsed" /\ exc = "none") =>
        /\ Len(loaded.entities) = Len(records)
        /\ \A k \in 1..Len(records) :
              /\ k \in Range(loaded.entities)
              /\ loaded.heap[k].name = records[k].tokens[1]

\* C20: after parse_sat the builder's bodies hold every entity built from a
\* record named "body", each exactly once, and no entity of another name.
C20_BodiesOnly ==
    (origin = "text" /\ pc = "parsed" /\ exc = "none") =>
        /\ \A k \in 1..Len(records) :
              records[k].tokens[1] = Word("body") =>
                  Cardinality({p \in 1..Len(loaded.bodies) :
                                  loaded.bodies[p] = k}) = 1
        /\ \A p \in 1..Len(loaded.bodies) :
              loaded.heap[loaded.bodies[p]].name = Word("body")

-----------------------------------------------------------------------------
(* Properties of the header text *)

\* the number of "@" characters of a line of characters
AtSigns(line) == Cardinality({i \in 1..Len(line) : line[i] = "@"})

\* C14: parse_sat_header(header.dumps()) returns a header with the same
\* version, counts, history flag, product id (also the empty one), version
\* string, creation date and unit scale, and dumps() writes the three
\* strings with an "@" length prefix exactly when version > 400 (no string
\* of the model holds an "@").
C14_HeaderRoundTrip ==
    (origin = "header" /\ pc = "parsed") =>
        /\ exc = "none"
        /\ loaded.header = header
        /\ AtSigns(data[2]) = IF header.version > 400 THEN 3 ELSE 0

\* C15: when a count, the history flag, the creation date or the unit scale
\* is missing or malformed in the text, parsing does not abort, that
\* sub-field keeps its default, and every sub-field that is well-formed in
\* the text is parsed to its written value.
C15_IndividualFallback ==
    (origin \in {"header", "damaged header"} /\ pc = "parsed") =>
        LET t1 == split(data[1])
            t2 == _parse_header_str(data[2])
            t3 == split(data[3])
            h == loaded.header
            int(i) == Len(t1) >= i /\ t1[i].k = "n"
        IN  /\ exc = "none"
            /\ h.n_records = IF int(2) THEN t1[2].n ELSE AcisHeader.n_records
            /\ h.n_entities = IF int(3) THEN t1[3].n ELSE AcisHeader.n_entities
            /\ h.history_flag =
                  IF int(4) THEN t1[4].n ELSE AcisHeader.history_flag
            /\ h.creation_date =
                  IF Len(t2) >= 3 /\ strptime(t2[3]).exc = "none"
                  THEN strptime(t2[3]).val ELSE AcisHeader.creation_date
            /\ h.units_in_mm =
                  IF Len(t3) >= 1 /\ ParseFloat(t3[1]).exc = "none"
                  THEN ParseFloat(t3[1]).val ELSE AcisHeader.units_in_mm

-----------------------------------------------------------------------------
(* Properties of the typed load *)

Loaded == lenv.pc = "loaded"

\* the record an instance of the loader was created for
RecordOf(inst) == CHOOSE u \in DOMAIN lres.dict : lres.dict[u] = inst

\* the type name restore_common expects for a reference field of a class
ExpectedOf(type, f) ==
    LET fs == RestoreFields(type, lenv.version, features)
    IN  fs[CHOOSE i \in 1..Len(fs) : fs[i].f = f].a

\* C13: restore_entity returns the null sentinel for a null pointer, the
\* factory entity of the target when the name of the target ends with the
\* expected type name, and raises ParsingError otherwise; no reference field
\* holds an entity whose name fails the suffix test.
C13_ReferenceValidation ==
    Loaded =>
        /\ \A i \in 1..Len(lres.rcalls) :
              LET c == lres.rcalls[i]
              IN  IF c.target = 0 THEN c.exc = "none" /\ c.ent = NONE_REF
                  ELSE IF EndsWith(raws[c.target].name, c.expected)
                  THEN /\ c.exc = "none"
                       /\ c.target \in DOMAIN lres.dict
                       /\ c.ent = lres.dict[c.target]
                  ELSE /\ c.exc = "ParsingError"
                       /\ lres.exc = "ParsingError"
                       /\ i = Len(lres.rcalls)
        /\ \A e \in 1..Len(lres.insts) : \A f \in DOMAIN lres.insts[e].refs :
              lres.insts[e].refs[f] # NONE_REF =>
                  EndsWith(raws[RecordOf(lres.insts[e].refs[f])].name,
                           ExpectedOf(lres.insts[e].type, f))

\* a load that accepts a record whose name has the expected name as a
\* proper suffix, and then raises for a record of another name
C13_Witness ==
    /\ Loaded
    /\ lres.exc = "ParsingError"
    /\ \E i, j, k \in 1..Len(lres.rcalls) :
          /\ lres.rcalls[i].target = 0
          /\ lres.rcalls[j].exc = "none"
          /\ lres.rcalls[j].target # 0
          /\ raws[lres.rcalls[j].target].name # lres.rcalls[j].expected
          /\ lres.rcalls[k].exc = "ParsingError"

\* C19: within one load every call of entity_factory for the same record
\* returns the same instance and calls for different records return
\* different instances; the instance created for a record, also through a
\* forward reference, is the one that is given the id and the attributes of
\* the record and is restored; restore is invoked once per record.
C19_FactoryIdentity ==
    Loaded =>
        /\ \A i, j \in 1..Len(lres.calls) :
              (lres.calls[i].uid = lres.calls[j].uid)
                  <=> (lres.calls[i].inst = lres.calls[j].inst)
        /\ Len(lres.insts) = Cardinality(DOMAIN lres.dict)
        /\ \A i \in 1..Len(lres.loads) :
              LET r == lres.loads[i]
                  e == lres.insts[lres.dict[r]]
              IN  /\ r = i
                  /\ r \in DOMAIN lres.dict
                  /\ e.raw = raws[r].name
                  /\ e.id = <<raws[r].id>>
                  /\ e.attributes =
                        IF raws[r].attr = 0 THEN NONE_REF
                        ELSE lres.dict[raws[r].attr]
                  /\ \A k \in 1..Len(lres.reads) :
                        lres.reads[k].inst = lres.dict[r] =>
                            \E c \in 1..Len(lres.calls) :
                                /\ lres.calls[c].uid = r
                                /\ lres.calls[c].inst = lres.reads[k].inst
        /\ lres.exc = "none" => Len(lres.loads) = Len(raws)

\* the second record is referenced twice by the first, before its own
\* record is processed, and is then loaded itself
C19_Witness ==
    /\ Loaded
    /\ lres.exc = "none"
    /\ lres.loads = <<1, 2>>
    /\ lres.calls[1].uid = 1
    /\ Cardinality({i \in 1..Len(lres.calls) : lres.calls[i].uid = 2}) >= 3
    /\ lres.insts[lres.dict[2]].id = <<raws[2].id>>


\* the records were written by the code under test
Written == lenv.pc \in {"records", "loaded"} /\ lenv.by \in {"export", "exporter"}
              /\ lenv.exc = "none"

GatedEdgeFields == {"start_param", "end_param", "convexity"}

\* the positions of a record that hold a double or a convexity string
ParamTokens(dt) ==
    {i \in 1..Len(dt) : dt[i].k = "f" \/ dt[i] \in {Word("unknown"), Word("convex")}}

\* the reads of the loader for the fields of an instance
ReadsOf(inst, fields) ==
    SelectSeq(lres.reads, LAMBDA r : r.inst = inst /\ r.f \in fields)

\* the statement of C11 for the records that come from the callers `bys`
EdgeGating(bys) ==
    (lenv.pc \in {"records", "loaded"} /\ lenv.exc = "none"
        /\ lenv.by \in bys /\ tents[1].type = "edge") =>
      LET dt == raws[1].data
          below == lenv.version < features.TOL_MODELING
          rds == ReadsOf(lres.dict[1], GatedEdgeFields)
      IN  /\ Written /\ below => ParamTokens(dt) = {}
          /\ Written /\ ~below => Cardinality(ParamTokens(dt)) = 3
          /\ Loaded /\ below =>
                /\ rds = <<>>
                /\ \A f \in GatedEdgeFields :
                      lres.insts[lres.dict[1]].vals[f] =
                          ScalarDefaults("edge")[f]
          /\ Loaded /\ ~below /\ lres.exc = "none" =>
                /\ [i \in 1..Len(rds) |-> rds[i].f] =
                      <<"start_param", "end_param", "convexity">>
                /\ {rds[i].idx : i \in 1..Len(rds)} = ParamTokens(dt)
                /\ Written => lres.insts[lres.dict[1]].vals = tents[1].vals

\* C11: below the tolerance-modeling threshold neither restoring nor writing
\* an Edge reads or emits the start parameter, the end parameter or the
\* convexity string; at or above the threshold all three are emitted and
\* read, in the same positions, and have equal values after a write and a
\* restore.
C11_EdgeVersionGating == EdgeGating({"export", "exporter", "hand"})

\* what holds of the code for C11: the statement for the records of
\* export_sat and export_sab, which refuse the versions below 700, and for
\* the records of another program
C11_ThroughExportCheck == EdgeGating({"export", "hand"})


\* the class a reference attribute is annotated with, as a type name
FieldClass(f) ==
    CASE f = "next_lump" -> "lump"
      [] f = "next_shell" -> "shell"
      [] f = "next_face" -> "face"
      [] f = "next_loop" -> "loop"
      [] f \in {"next_coedge", "prev_coedge", "partner_coedge"} -> "coedge"
      [] f \in {"start_vertex", "end_vertex"} -> "vertex"
      [] OTHER -> f

\* every reference of the entities of the caller, but those of the fields
\* `but`, is null or an entity of the class of the attribute
WellTyped(but) ==
    \A o \in 1..Len(tents) : \A f \in DOMAIN tents[o].refs :
        /\ f \in but => tents[o].refs[f] = NONE_REF
        /\ tents[o].refs[f] # NONE_REF =>
              tents[tents[o].refs[f]].type = FieldClass(f)

\* the tokens write_common gives an entity without the pattern pointer
SansPattern(e, fmt) ==
    write_fields(e, SelectSeq(WriteFields(e.type), LAMBDA d : d.f # "pattern"),
                 1, fmt)

\* the statement of C12 for the records that come from the callers `bys`,
\* no reference field of `but` being set
PatternGating(bys, but) ==
    (Loaded /\ Written /\ lenv.by \in bys /\ WellTyped(but)) =>
      /\ lres.exc = "none"
      /\ \A r \in 1..Len(raws) :
            LET inst == lres.dict[r]
                rds == SelectSeq(lres.reads, LAMBDA x : x.inst = inst)
                reads_one == \E i \in 1..Len(rds) : rds[i].f = "pattern"
                writes_one ==
                    Len(raws[r].data) =
                        Len(SansPattern(tents[r], lenv.fmt)) + 1
            IN  /\ reads_one <=> lenv.version >= features.PATTERN
                /\ writes_one <=> reads_one
                /\ [i \in 1..Len(rds) |-> rds[i].idx] =
                      [i \in 1..Len(raws[r].data) |-> i]

\* C12: the pattern pointer is gated by the identical threshold on load and
\* on export: for every declared version a pattern-supporting entity writes
\* the pattern pointer exactly when restore at that version reads one, so
\* the tokens written are consumed field for field by restore at the same
\* version.
C12_PatternGating ==
    PatternGating({"export", "exporter"}, {})

\* what holds of the code for C12: the statement for the records of
\* export_sat and export_sab, no shell having a next shell
C12_ThroughExportCheck ==
    PatternGating({"export"}, {"next_shell"})


-----------------------------------------------------------------------------
(* Properties of the typed links and of the fields of a Face *)

\* the records are in the layout the loader expects for their version: they
\* come from export_sat / export_sab or from a file of another program
InLayout == lenv.by \in {"export", "hand"} /\ lenv.exc = "none"

\* the statement of C26, no reference field of `but` being set
LinksAccepted(but) ==
    (Loaded /\ InLayout /\ WellTyped(but)) =>
      /\ lres.exc = "none"
      /\ \A r \in 1..Len(raws) :
            LET fs == RestoreFields(tents[r].type, lenv.version, features)
            IN  \A i \in 1..Len(fs) :
                  fs[i].kind = "ptr" =>
                      lres.insts[lres.dict[r]].refs[fs[i].f] =
                          IF tents[r].refs[fs[i].f] = NONE_REF THEN NONE_REF
                          ELSE lres.dict[tents[r].refs[fs[i].f]]

\* C26: correctly typed links are accepted at load: restoring a record in
\* which each non-null reference field points to an entity of the kind the
\* field is declared to hold succeeds without ParsingError and stores that
\* entity in the field; in particular a Shell record whose next-shell
\* pointer targets another shell record loads with next_shell set.
C26_TypedLinksAccepted == LinksAccepted({})

\* what holds of the code for C26: the statement for the graphs in which no
\* shell has a next shell
C26_ButNextShell == LinksAccepted({"next_shell"})

\* an entity of type t is of the class of type c or of a subclass of it; an
\* entity of no registered class is let pass: its record name is a name
\* derived from the one of the class
IsKind(t, c) ==
    \/ t = c
    \/ c = "surface" /\ t = "plane-surface"
    \/ c = "curve" /\ t = "straight-curve"
    \/ t = UNSUPPORTED

\* C27: after a successful load no reference field holds an entity of a
\* kind other than the kind the field is declared to hold or one of its
\* subtypes: a coedge in an edge field, a pcurve in Edge.curve or a subshell
\* in a shell field is rejected with ParsingError.
C27_NoForeignKind ==
    (Loaded /\ lres.exc = "none") =>
        \A e \in 1..Len(lres.insts) : \A f \in DOMAIN lres.insts[e].refs :
            lres.insts[e].refs[f] # NONE_REF =>
                IsKind(lres.insts[lres.insts[e].refs[f]].type, FieldClass(f))

FaceWritten == Written /\ tents[1].type = "face"
                  /\ lenv.version >= features.PATTERN

-----------------------------------------------------------------------------
(* Properties of parse_data *)

\* the reading C24 describes, for the tokens from i on and the declared
\* fields from j on: [exc, content, used, all]; used is the number of tokens
\* looked at, all tells that every declared field was consumed; exc is
\* "unspecified" where C24 names no outcome (a token that is no pointer
\* against a field that is a type name)
RECURSIVE Decoded(_, _, _, _)
Decoded(dt, i, fmt, j) ==
    IF j > Len(fmt)
    THEN [exc |-> "none", content |-> <<>>, used |-> i - 1, all |-> TRUE]
    ELSE IF i > Len(dt)
    THEN [exc |-> "none", content |-> <<>>, used |-> i - 1, all |-> FALSE]
    ELSE
      LET token == dt[i]
          stop(e) == [exc |-> e, content |-> <<>>, used |-> i, all |-> FALSE]
          then(vs, r) == [r EXCEPT !.content = vs \o @]
      IN  IF is_entity(token)
          THEN IF token_name(token) = fmt[j]
               THEN then(<<token>>, Decoded(dt, i + 1, fmt, j + 1))
               ELSE Decoded(dt, i + 1, fmt, j)
          ELSE CASE fmt[j] = "f" ->
                      IF token = Word("I")
                      THEN then(<<PyInf>>, Decoded(dt, i + 1, fmt, j + 1))
                      ELSE IF token.k \in {"n", "f"}
                      THEN then(<<PyFloat(ParseFloat(token).val)>>,
                                Decoded(dt, i + 1, fmt, j + 1))
                      ELSE stop("ParsingError")
                 [] fmt[j] = "i" ->
                      IF token.k = "n"
                      THEN then(<<PyInt(token.n)>>,
                                Decoded(dt, i + 1, fmt, j + 1))
                      ELSE stop("ParsingError")
                 [] fmt[j] = "s" ->
                      then(<<token>>, Decoded(dt, i + 1, fmt, j + 1))
                 [] fmt[j] = "@" ->
                      IF i + 1 > Len(dt)
                      THEN [exc |-> "none", content |-> <<>>, used |-> i,
                            all |-> FALSE]
                      ELSE then(<<dt[i + 1]>>, Decoded(dt, i + 2, fmt, j + 1))
                 [] fmt[j] = "?" -> Decoded(dt, i + 1, fmt, j + 1)
                 [] OTHER -> stop("unspecified")

PdDone == pdres.pc = "done"

\* C24: parse_data walks the tokens left to right and returns the decoded
\* values in token order: each token that is no pointer consumes one
\* declared field ("f" float with "I" as +infinity, "i" int, "s" the token,
\* "@" the length token discarded and the next token returned, "?" nothing);
\* a pointer token is returned and consumes the next field only when the
\* name of its target equals that field, otherwise it is skipped; a token
\* that cannot be decoded as the declared float or int raises ParsingError.
C24_FieldReader ==
    PdDone =>
      LET d == Decoded(pdcall.data, 1, pdcall.fmt, 1)
      IN  /\ (pdres.exc = "ParsingError") <=> (d.exc = "ParsingError")
          /\ pdres.exc = "none" =>
                d.exc = "none" /\ pdres.content = d.content
          /\ (d.exc = "none" /\ d.used = Len(pdcall.data)) =>
                pdres.exc = "none"

\* a null pointer is skipped, a lump is matched and "I" is decoded
C24_Witness ==
    /\ PdDone /\ pdres.exc = "none"
    /\ pdcall.data = <<Ref(NullObj), Ref(PdLump), Word("I")>>
    /\ pdres.content = <<Ref(PdLump), PyInf>>

\* C25: parse_data stops consuming tokens as soon as every declared field
\* has been consumed: for every format, the ones whose last field is "@"
\* included, and every token list with more tokens than the format needs it
\* returns normally with at most one value per declared field and ignores
\* the surplus tokens.
C25_StopsAtLastField ==
    PdDone =>
      LET d == Decoded(pdcall.data, 1, pdcall.fmt, 1)
      IN  (d.exc = "none" /\ d.all /\ d.used < Len(pdcall.data)) =>
            /\ pdres.exc = "none"
            /\ Len(pdres.content) <= Len(pdcall.fmt)
            /\ pdres.content =
                  parse_data(SubSeq(pdcall.data, 1, d.used), pdcall.fmt).content

\* what holds of the code for C25: the statement for the formats whose last
\* field is not "@"
C25_ButUserStringLast ==
    (PdDone /\ pdcall.fmt[Len(pdcall.fmt)] # "@") => C25_StopsAtLastField


-----------------------------------------------------------------------------
(* Properties of the ids of typed entities and of the debugger *)

\* the entities reachable from root through the values of vars(entity)
RECURSIVE ReachFrom(_, _)
ReachFrom(th, S) ==
    LET T == S \cup {t \in DOMAIN th \ {NONE_REF} :
                        \E o \in S : t \in Range(th[o].vars)}
    IN  IF T = S THEN S ELSE ReachFrom(th, T)

Reachable(th, root) == IF root = NONE_REF THEN {} ELSE ReachFrom(th, {root})

\* C22: every entity has id -1 from its creation until an id is assigned:
\* an entity that came from its constructor has an id, and while no debugger
\* has numbered it the id is -1 or the one the caller or the loader set.
C22_IdMinusOneUntilAssigned ==
    \A o \in DbgObjs :
        /\ dheap[o].id # <<>>
        /\ dbg.op = "none" => dheap[o].id \in {<<-1>>} \cup {<<n>> : n \in DbgIds}

\* every entity of the graph has an id
IdsSet(th) == \A o \in DOMAIN th \ {NONE_REF} : th[o].id # <<>>

DbgCalled == dbg.op \in {"init", "set_entities"} /\ dbg.arg # NONE_REF

\* the call returned, and every entity reachable from root has an id other
\* than -1, its own, under which it is in debugger.entities
IdsAssigned ==
    /\ dbg.exc = "none"
    /\ \A o \in Reachable(dheap, dbg.arg) :
          /\ dheap[o].id \notin {<<>>, <<-1>>}
          /\ dheap[o].id[1] \in DOMAIN dbg.entities
          /\ dbg.entities[dheap[o].id[1]] = o
    /\ \A o, q \in Reachable(dheap, dbg.arg) :
          o # q => dheap[o].id # dheap[q].id

\* C29: after AcisDebugger(root, start_id) or set_entities(root) on any
\* entity graph, cyclic graphs and graphs with ids already set included, the
\* call has terminated, every entity reachable from root has an id other
\* than -1, no two reachable entities share an id and debugger.entities
\* holds every reachable entity under its id. Stated for the graphs in which
\* every entity has an id, numbered from 0 or above.
C29_DebuggerIds ==
    (DbgCalled /\ IdsSet(dbg.before.th) /\ dbg.before.next_id >= -1)
    => IdsAssigned

\* what holds of the code for C29: the statement for the graphs in which
\* every reachable entity has the id -1, numbered from 0 or above
C29_ButPresetIds ==
    ( /\ DbgCalled
      /\ dbg.before.next_id >= -1
      /\ \A o \in Reachable(dbg.before.th, dbg.arg) :
            dbg.before.th[o].id = <<-1>> )
    => IdsAssigned

\* the assignment of ids terminates
C29_Terminates == dbg.exc # "RecursionError"

WalkRoot == IF dwalk.root = NONE_REF THEN dbg.root ELSE dwalk.root

\* C30: AcisDebugger.walk(root) terminates on every entity graph, graphs
\* with cycles included, yields root first, never yields NONE_REF, never
\* yields an entity twice and yields every entity reachable from root.
\* Stated for the graphs in which every entity has an id.
C30_Walk ==
    (dwalk.pc = "done" /\ IdsSet(dheap)) =>
        /\ dwalk.exc = "none"
        /\ WalkRoot # NONE_REF => dwalk.out # <<>> /\ dwalk.out[1] = WalkRoot
        /\ NONE_REF \notin Range(dwalk.out)
        /\ \A i, j \in DOMAIN dwalk.out : i # j => dwalk.out[i] # dwalk.out[j]
        /\ Reachable(dheap, WalkRoot) \subseteq Range(dwalk.out)

\* what holds of the code for C30: everything but the last part always, and
\* the last part when no two reachable entities share an id
C30_ButSharedIds ==
    (dwalk.pc = "done" /\ IdsSet(dheap)) =>
        /\ dwalk.exc = "none"
        /\ WalkRoot # NONE_REF => dwalk.out # <<>> /\ dwalk.out[1] = WalkRoot
        /\ NONE_REF \notin Range(dwalk.out)
        /\ \A i, j \in DOMAIN dwalk.out : i # j => dwalk.out[i] # dwalk.out[j]
        /\ Range(dwalk.out) \subseteq Reachable(dheap, WalkRoot)
        /\ (\A o, q \in Reachable(dheap, WalkRoot) :
               o # q => dheap[o].id # dheap[q].id)
           => Reachable(dheap, WalkRoot) \subseteq Range(dwalk.out)


-----------------------------------------------------------------------------
(* Properties of the null sentinels *)

\* C21: the null sentinel is immutable and never registered: across any
\* sequence of loads, pointer resolutions, exports and debugger id
\* assignments the sentinel keeps its type, its missing id and its empty
\* attributes, it is never a value of an index->entity or id->entity map
\* (the dict of a FileLoader, the list of an exporter, the entities of a
\* debugger) and never in the entity list or the bodies of a builder.
C21_SentinelUntouched ==
    /\ dheap[NONE_REF] = NoneEntity
    /\ NONE_REF \notin Range(dbg.entities)
    /\ NONE_REF \notin Range(lres.dict)
    /\ NONE_REF \notin Range(xres.visited)
    /\ NullObj \notin Range(entities) \cup Range(loaded.entities)
    /\ NullObj \notin Range(loaded.bodies)

\* a debugger has numbered a graph in which NONE_REF is the value of a
\* field, and set_entities was called with NONE_REF
C21_Witness ==
    /\ dbg.op = "set_entities"
    /\ dbg.arg = NONE_REF
    /\ dbg.before.next_id > 0
    /\ \E o \in DbgObjs : NONE_REF \in Range(dheap[o].vars)

\* an export has met NONE_REF as the value of a field
C21_WitnessExport ==
    /\ xres.visited # <<>>
    /\ xres.exc = "none"
    /\ \E o \in Range(xres.visited) : NONE_REF \in Range(theap[o].refs)

\* a parse has resolved the pointer $-1
C21_WitnessParse ==
    /\ pc = "parsed"
    /\ exc = "none"
    /\ \E o \in Range(loaded.entities) :
          loaded.heap[o].attributes = NullObj

=============================================================================
